---------------------------- MODULE Spec2Model ----------------------------
(***************************************************************************)
(* A model of vidsense (package vidcrawl and its Streamlit front end).     *)
(*                                                                         *)
(* The module holds one state machine per component and one specification  *)
(* for each:                                                               *)
(*   SpecSeg    the segmentation loop of transcribe_audio_s3, item by      *)
(*              item (src/vidcrawl/core/_audio.py);                        *)
(*   SpecReport create_unified_report and merge_timeline                   *)
(*              (src/vidcrawl/_merger.py);                                 *)
(*   SpecPipe   the Analyze Video handler of src/ui.py: separator, then    *)
(*              analyse_images and transcribe_audio_s3 as tasks of a       *)
(*              thread pool, then create_unified_report;                   *)
(*   SpecFrames extract_best_frames_fast (core/_transform.py);             *)
(*   SpecOrch   the Orchestrator over several cuts, of which the sources   *)
(*              hold no driver: modelled from section 4.4 of the           *)
(*              specification;                                             *)
(*   SpecSep    separator (core/_transform.py), up to MaxCalls calls at a  *)
(*              time on one bucket;                                        *)
(*   SpecPush   _push_video_to_s3 (core/_s3.py), call after call;          *)
(*   SpecScene  poll_results and get_scene_detection_results               *)
(*              (core/_scenes.py);                                         *)
(*   SpecJob    transcribe_audio_s3 from its entry: submission, poll       *)
(*              loop, fetch, clean-up (core/_audio.py);                    *)
(*   SpecJobWait the same with a job that may stay pending for ever, and   *)
(*              weak fairness of the steps of the call;                    *)
(*   SpecPrompt create_images_prompt (core/_llm.py).                       *)
(*                                                                         *)
(* Values.  Python floats carrying seconds are whole numbers of seconds    *)
(* here, confidences in [0,1] are hundredths (1.0 is 100), texts are       *)
(* strings, None is the empty tuple and a present optional value v is <<v>>.*)
(***************************************************************************)
EXTENDS Integers, Sequences, FiniteSets, TLC

(***************************************************************************)
(* Bounds of the model.                                                    *)
(***************************************************************************)
\* longest token stream of words only
MaxWords == 25
\* longest token stream that holds punctuation tokens
MixedLen == 12
\* most punctuation tokens in one stream
MaxPunct == 2
\* most status polls that answer neither COMPLETED nor FAILED
MaxPolls == 2

(***************************************************************************)
(* Program constants.                                                      *)
(***************************************************************************)
\* _audio.py:118  "if len(current_text) >= 10"
SegWords == 10
\* _audio.py:140 and :153  "confidence=1.0", in hundredths
FullConfidence == 100

None == <<>>
Some(v) == <<v>>

Min(a, b) == IF a <= b THEN a ELSE b

(***************************************************************************)
(* State.                                                                  *)
(***************************************************************************)
VARIABLES
    \* ---- transcribe_audio_s3 ----
    audio_clip,      \* the AudioClip argument: [audio_data, start]
    tpc,             \* position in transcribe_audio_s3
    polls,           \* get_transcription_job calls made so far
    job_status,      \* last TranscriptionJobStatus read ("" before any)
    profile,         \* timing of the words of the fetched transcript
    items,           \* the items of the transcript iterated so far
    current_text,    \* list of buffered words
    current_start,   \* None or the start time of the first buffered word
    current_end,     \* None or the end time of the last word seen
    transcripts,     \* the Transcript objects appended so far
    deletes,         \* delete_transcription_job calls made so far
    delete_error,    \* None, or <<e>>: what the deletion raised (swallowed)
    error,           \* None, or <<e>>: the exception of line 167
    returned,        \* None, or <<list>> once the function has returned
    \* ---- create_unified_report / merge_timeline ----
    visual_analysis,     \* argument: the visual finding
    report_transcripts,  \* argument "transcripts": the utterances
    video_end,           \* argument video_clip.end
    rpc,                 \* position in create_unified_report
    markdown,            \* merge_timeline's list of pieces
    report,              \* None, or <<text>> once a text has been returned
    \* ---- the Analyze Video handler and analyze_video_parallel ----
    hpc,             \* position in the handler
    workers,         \* max_workers of the pool: os.cpu_count()
    video_clip,      \* None, or the VideoClip separator returned
    vis,             \* the analyse_images task: none, queued, running, ok, failed
    vpc,             \* position in analyse_images
    visual_result,   \* None, or <<text>> returned by analyse_images
    aud,             \* the transcribe_audio_s3 task: none, queued, running, done
    exc,             \* None, or <<e>>: the exception leaving analyze_video_parallel
    is_analyzed,     \* st.session_state.is_analyzed
    video_report,    \* st.session_state.video_report
    \* ---- extract_best_frames_fast ----
    fpc,             \* position in extract_best_frames_fast
    num_frames,      \* argument: the frame budget
    sample_rate,     \* argument: the sampling stride
    fps,             \* cap.get(CAP_PROP_FPS)
    total_frames,    \* cap.get(CAP_PROP_FRAME_COUNT)
    frame_num,       \* the loop variable of phase 1
    frame_scores,    \* list of [frame_num, timestamp, score]
    selected,        \* the frames chosen in phase 2
    pending,         \* indices into selected whose future has not been consumed
    unreadable,      \* futures consumed so far whose result was None
    completed,       \* indices into selected in the order as_completed gave them
    keyframe_data,   \* list of <<output_path, timestamp>>
    \* ---- the Orchestrator over cuts (spec section 4.4) ----
    cuts,            \* the cuts submitted, in submission order
    concurrency_limit,  \* size of the worker pool
    extraction,      \* per cut: queued, running, ok, failed
    visual_task,     \* per cut: none, running, ok, failed
    speech_task,     \* per cut: none, running, ok, failed
    extracted_order, \* the cuts in the order their extractions completed
    outcomes,        \* the outcomes reported to the caller so far
    \* ---- separator, one entry per concurrent call ----
    spc,             \* per call: position in separator
    sep_num_frames,  \* per call: argument num_frames
    sep_keyframes,   \* per call: keyframe_data of line 150
    sep_duration,    \* per call: None or <<duration>> probed at line 159
    uploads,         \* per call: upload_futures, the state of each task
    bucket,          \* the bucket: per key, the call whose object it holds (0: none)
    sep_result,      \* per call: None or <<[audio_clip, video_clip]>> returned
    sep_exc,         \* per call: None or <<e>>, the exception that left separator
    \* ---- _push_video_to_s3 ----
    ppc,             \* position in _push_video_to_s3
    push_path,       \* argument video_path
    push_overwrite,  \* argument overwrite
    s3_object,       \* None, or <<content>>: the object stored under the key
    push_log,        \* one record per call that is over
    \* ---- get_scene_detection_results ----
    scpc,               \* where get_scene_detection_results stands
    scene_duration,     \* length of the analysed video in seconds
    scene_polls,        \* get_segment_detection calls that answered IN_PROGRESS
    scene_segments,     \* res["Segments"] of the SUCCEEDED answer, None before
    video_cuts,         \* the returned list of VideoCut, None before
    scene_exc,          \* the exception get_scene_detection_results raised
    \* ---- create_images_prompt ----
    lpc,                \* position in create_images_prompt
    prompt_clips,       \* argument video_clips
    max_frames,         \* argument max_frames
    content,            \* the list of blocks built so far
    sent_frames,        \* the local total_frames
    frame_timestamps,   \* the local frame_timestamps, in tenths of a second
    clip_index,         \* clips the outer loop has gone through
    prompt_exc          \* None, or <<e>>: the exception that left the function

segVars == <<audio_clip, tpc, polls, job_status, profile, items, current_text,
             current_start, current_end, transcripts, deletes, delete_error, error, returned>>

repVars == <<visual_analysis, report_transcripts, video_end, rpc, markdown, report>>

pipeVars == <<hpc, workers, video_clip, vis, vpc, visual_result, aud, exc,
              is_analyzed, video_report>>

frameVars == <<fpc, num_frames, sample_rate, fps, total_frames, frame_num,
               frame_scores, selected, pending, unreadable, completed,
               keyframe_data>>

orchVars == <<cuts, concurrency_limit, extraction, visual_task, speech_task,
              extracted_order, outcomes>>

sepVars == <<spc, sep_num_frames, sep_keyframes, sep_duration, uploads, bucket,
             sep_result, sep_exc>>

pushVars == <<ppc, push_path, push_overwrite, s3_object, push_log>>

sceneVars == <<scpc, scene_duration, scene_polls, scene_segments, video_cuts, scene_exc>>

promptVars == <<lpc, prompt_clips, max_frames, content, sent_frames,
                frame_timestamps, clip_index, prompt_exc>>

vars == <<segVars, repVars, pipeVars, frameVars, orchVars, sepVars, pushVars, sceneVars, promptVars>>

(***************************************************************************)
(* The token stream of a transcript (_audio.py:97, results.items).         *)
(* Word i of a stream is Vocabulary[i] cyclically; its times follow the    *)
(* stream's profile (stride between word starts, duration of a word) and   *)
(* its confidence cycles through Confidences.                              *)
(***************************************************************************)
Vocabulary == <<"Hello", "world", "again">>
Confidences == <<99, 50, 0, 100>>
PunctuationMarks == {".", ",", "?", "!"}

\* back to back, with gaps, zero-length words at one instant, overlapping
Profiles == { [stride |-> 1, dur |-> 1], [stride |-> 3, dur |-> 2],
              [stride |-> 0, dur |-> 0], [stride |-> 1, dur |-> 2] }

ClipStarts == {0, 7}

Cyc(seq, i) == seq[((i - 1) % Len(seq)) + 1]

WordItem(p, i) ==
    [ type |-> "pronunciation", content |-> Cyc(Vocabulary, i),
      start_time |-> (i - 1) * p.stride,
      end_time |-> (i - 1) * p.stride + p.dur,
      confidence |-> Cyc(Confidences, i) ]

PunctItem(mark) ==
    [ type |-> "punctuation", content |-> mark,
      start_time |-> 0, end_time |-> 0, confidence |-> 0 ]

IsWord(item) == item.type = "pronunciation"

RECURSIVE CountWords(_)
CountWords(its) ==
    IF its = <<>> THEN 0
    ELSE (IF IsWord(its[Len(its)]) THEN 1 ELSE 0)
         + CountWords(SubSeq(its, 1, Len(its) - 1))

NumWords == CountWords(items)
NumPunct == Len(items) - NumWords

(***************************************************************************)
(* " ".join(current_text)                                                  *)
(***************************************************************************)
RECURSIVE Join(_)
Join(words) ==
    IF words = <<>> THEN ""
    ELSE IF Len(words) = 1 THEN words[1]
    ELSE Join(SubSeq(words, 1, Len(words) - 1)) \o " " \o words[Len(words)]

Transcript(text, start, end, confidence) ==
    [ text |-> text, start |-> start, end |-> end, confidence |-> confidence ]

\* the test of line 118 written with > in place of >=
SegmentFullOffByOne(text) == Len(text) > SegWords

\* _audio.py:118
SegmentFull(text) == Len(text) >= SegWords

\* _audio.py:134
IsTerminal(mark) == mark \in {".", "!", "?"}

\* the buffer as one value: what an iteration of the loop reads and writes
Buffer(text, start, end, out) ==
    [ current_text |-> text, current_start |-> start, current_end |-> end,
      transcripts |-> out ]

\* CloseSegment forgetting "current_text = []"
CloseSegmentKeepText(b, clip_start, confidence) ==
    Buffer(b.current_text, None, b.current_end,
           Append(b.transcripts,
                  Transcript(Join(b.current_text),
                             clip_start + b.current_start[1],
                             clip_start + b.current_end[1],
                             confidence)))

\* CloseSegment forgetting "current_start = None"
CloseSegmentKeepStart(b, clip_start, confidence) ==
    Buffer(<<>>, b.current_start, b.current_end,
           Append(b.transcripts,
                  Transcript(Join(b.current_text),
                             clip_start + b.current_start[1],
                             clip_start + b.current_end[1],
                             confidence)))

\* _audio.py:119-128 and :135-144: append a Transcript and reset the buffer
CloseSegment(b, clip_start, confidence) ==
    Buffer(<<>>, None, b.current_end,
           Append(b.transcripts,
                  Transcript(Join(b.current_text),
                             clip_start + b.current_start[1],
                             clip_start + b.current_end[1],
                             confidence)))

\* OnWord closing the tenth word's segment with confidence 1.0
OnWordFullConfidence(b, item, clip_start) ==
    LET started == IF b.current_start = None THEN Some(item.start_time)
                   ELSE b.current_start
        b1 == Buffer(Append(b.current_text, item.content), started,
                     Some(item.end_time), b.transcripts)
    IN  IF SegmentFull(b1.current_text)
        THEN CloseSegment(b1, clip_start, FullConfidence)
        ELSE b1

\* _audio.py:105-128: a pronunciation item
OnWord(b, item, clip_start) ==
    LET started == IF b.current_start = None THEN Some(item.start_time)
                   ELSE b.current_start
        b1 == Buffer(Append(b.current_text, item.content), started,
                     Some(item.end_time), b.transcripts)
    IN  IF SegmentFull(b1.current_text)
        THEN CloseSegment(b1, clip_start, item.confidence)
        ELSE b1

\* OnPunctuation buffering the mark as a word of its own
OnPunctuationAsWord(b, item, clip_start) ==
    LET b1 == Buffer(Append(b.current_text, item.content),
                     b.current_start, b.current_end, b.transcripts)
    IN  IF IsTerminal(item.content)
        THEN CloseSegment(b1, clip_start, FullConfidence)
        ELSE b1

\* _audio.py:130-144: a punctuation item while words are buffered
OnPunctuation(b, item, clip_start) ==
    LET n == Len(b.current_text)
        b1 == Buffer([b.current_text EXCEPT ![n] = @ \o item.content],
                     b.current_start, b.current_end, b.transcripts)
    IN  IF IsTerminal(item.content)
        THEN CloseSegment(b1, clip_start, FullConfidence)
        ELSE b1

\* LoopBody taking a punctuation item that finds the buffer empty as a word
LoopBodyMarkAsWord(b, item, clip_start) ==
    IF item.type = "pronunciation" THEN OnWord(b, item, clip_start)
    ELSE IF item.type = "punctuation" /\ b.current_text # <<>>
         THEN OnPunctuation(b, item, clip_start)
    ELSE OnWord(b, item, clip_start)

\* _audio.py:104-144: one iteration of "for item in items"
LoopBody(b, item, clip_start) ==
    IF item.type = "pronunciation" THEN OnWord(b, item, clip_start)
    ELSE IF item.type = "punctuation" /\ b.current_text # <<>>
         THEN OnPunctuation(b, item, clip_start)
    ELSE b

\* FlushBuffer leaving out the clip's start time
FlushBufferNoOffset(b, clip_start) ==
    IF b.current_text # <<>> THEN CloseSegment(b, 0, FullConfidence)
    ELSE b

\* _audio.py:146-155: flush what is left in the buffer
FlushBuffer(b, clip_start) ==
    IF b.current_text # <<>> THEN CloseSegment(b, clip_start, FullConfidence)
    ELSE b

(***************************************************************************)
(* lines 104-155 as a function of the whole item list                      *)
(***************************************************************************)
RECURSIVE RunLoop(_, _)
RunLoop(its, clip_start) ==
    IF its = <<>> THEN Buffer(<<>>, None, None, <<>>)
    ELSE LoopBody(RunLoop(SubSeq(its, 1, Len(its) - 1), clip_start),
                  its[Len(its)], clip_start)

Segment(its, clip_start) == FlushBuffer(RunLoop(its, clip_start), clip_start)

\* a stream from its shape: "w" stands for the next word, a mark for itself
RECURSIVE Stream(_, _)
Stream(p, shape) ==
    IF shape = <<>> THEN <<>>
    ELSE LET rest == Stream(p, SubSeq(shape, 1, Len(shape) - 1))
             c == shape[Len(shape)]
         IN  Append(rest, IF c = "w" THEN WordItem(p, CountWords(rest) + 1)
                          ELSE PunctItem(c))

\* the transcripts a job of the pipeline may deliver
SampleShapes ==
    { <<>>, <<"w", "w", ".">>, <<"w", ",", "w", "?", "w">>,
      [i \in 1..(SegWords + 1) |-> "w"] }

SampleStreams == { Stream(p, sh) : p \in {[stride |-> 3, dur |-> 2]}, sh \in SampleShapes }

(***************************************************************************)
(* transcribe_audio_s3, step by step.                                      *)
(***************************************************************************)
\* _audio.py:160-163 and 170-173: the deletion succeeds, or raises and the
\* exception is swallowed
DeleteOutcomes == {None, Some("ClientError")}

jobVars == <<polls, job_status, deletes, delete_error, error>>
bufVars == <<profile, items, current_text, current_start, current_end, transcripts>>

AudioClips ==
    { [audio_data |-> d, start |-> s] :
        d \in {<<>>, <<"audio/video_full.mp3">>}, s \in ClipStarts }

\* the state on entry to the function
JobInit ==
    /\ audio_clip \in AudioClips
    /\ tpc = "entry"
    /\ polls = 0
    /\ job_status = ""
    /\ deletes = 0
    /\ delete_error = None
    /\ error = None
    /\ profile = None
    /\ items = <<>>
    /\ current_text = <<>>
    /\ current_start = None
    /\ current_end = None
    /\ transcripts = <<>>
    /\ returned = None

\* the locals of the parsing part go out of scope
DropLocals ==
    /\ profile' = None /\ items' = <<>> /\ current_text' = <<>>
    /\ current_start' = None /\ current_end' = None /\ transcripts' = <<>>

\* an exception raised inside the try block of line 57
Raise(e) == tpc' = "except" /\ error' = Some(e)

\* _audio.py:45-47
NoAudio ==
    /\ tpc = "entry" /\ audio_clip.audio_data = <<>>
    /\ tpc' = "returned" /\ returned' = Some(<<>>)
    /\ UNCHANGED <<audio_clip, jobVars, bufVars>>

\* _audio.py:50-67: start_transcription_job accepted
StartJob ==
    /\ tpc = "entry" /\ audio_clip.audio_data # <<>>
    /\ tpc' = "poll"
    /\ UNCHANGED <<audio_clip, jobVars, bufVars, returned>>

\* _audio.py:58 raising: the submission is rejected
StartJobRejected ==
    /\ tpc = "entry" /\ audio_clip.audio_data # <<>>
    /\ Raise("start_transcription_job")
    /\ UNCHANGED <<audio_clip, polls, job_status, deletes, delete_error, bufVars, returned>>

\* Poll going on polling after FAILED
PollOnAfterFailed ==
    /\ tpc = "poll"
    /\ \E s \in {"QUEUED", "IN_PROGRESS", "COMPLETED", "FAILED"} :
         /\ s \in {"QUEUED", "IN_PROGRESS", "FAILED"} => polls < MaxPolls
         /\ job_status' = s
         /\ CASE s = "COMPLETED" -> tpc' = "fetch" /\ error' = error
              [] OTHER -> tpc' = "poll" /\ error' = error
    /\ polls' = polls + 1
    /\ UNCHANGED <<audio_clip, deletes, delete_error, bufVars, returned>>

\* _audio.py:71-82: one turn of the poll loop
Poll ==
    /\ tpc = "poll"
    /\ \E s \in {"QUEUED", "IN_PROGRESS", "COMPLETED", "FAILED"} :
         /\ s \in {"QUEUED", "IN_PROGRESS"} => polls < MaxPolls
         /\ job_status' = s
         /\ CASE s = "COMPLETED" -> tpc' = "fetch" /\ error' = error
              [] s = "FAILED" -> Raise("Transcription failed")
              [] OTHER -> tpc' = "poll" /\ error' = error
    /\ polls' = polls + 1
    /\ UNCHANGED <<audio_clip, deletes, delete_error, bufVars, returned>>

\* _audio.py:72 raising: get_transcription_job fails
PollError ==
    /\ tpc = "poll"
    /\ polls' = polls + 1
    /\ Raise("get_transcription_job")
    /\ UNCHANGED <<audio_clip, job_status, deletes, delete_error, bufVars, returned>>

\* _audio.py:84-157 in one step: the transcript is downloaded, parsed and
\* segmented
Parse ==
    /\ tpc = "fetch"
    /\ \E its \in SampleStreams :
         LET b == Segment(its, audio_clip.start)
         IN  /\ items' = its
             /\ current_text' = b.current_text
             /\ current_start' = b.current_start
             /\ current_end' = b.current_end
             /\ transcripts' = b.transcripts
    /\ tpc' = "cleanup"
    /\ UNCHANGED <<audio_clip, jobVars, profile, returned>>

\* _audio.py:85-109 raising: no transcript uri, download error, JSON error or
\* an item without the expected fields
ParseError ==
    /\ tpc = "fetch"
    /\ Raise("transcript")
    /\ UNCHANGED <<audio_clip, polls, job_status, deletes, delete_error, bufVars, returned>>

\* Cleanup without the inner try: a deletion that raises reaches the handler
\* of line 167
CleanupDeleteUnguarded ==
    /\ tpc = "cleanup"
    /\ deletes' = deletes + 1
    /\ \E outcome \in DeleteOutcomes :
         /\ delete_error' = outcome
         /\ IF outcome = None
            THEN /\ tpc' = "returned" /\ returned' = Some(transcripts)
                 /\ error' = error /\ DropLocals
            ELSE /\ tpc' = "except" /\ error' = outcome
                 /\ UNCHANGED <<returned, bufVars>>
    /\ UNCHANGED <<audio_clip, polls, job_status>>

\* _audio.py:159-165: delete the job (a failure is swallowed), return
Cleanup ==
    /\ tpc = "cleanup"
    /\ deletes' = deletes + 1
    /\ delete_error' \in DeleteOutcomes
    /\ tpc' = "returned" /\ returned' = Some(transcripts)
    /\ DropLocals
    /\ UNCHANGED <<audio_clip, polls, job_status, error>>

\* _audio.py:167-174: any exception: delete the job, return []
Except ==
    /\ tpc = "except"
    /\ deletes' = deletes + 1
    /\ delete_error' \in DeleteOutcomes
    /\ tpc' = "returned" /\ returned' = Some(<<>>)
    /\ UNCHANGED <<audio_clip, polls, job_status, error, bufVars>>

(***************************************************************************)
(* The segmentation loop of transcribe_audio_s3 item by item               *)
(* (_audio.py:100-157).  The items are read one per iteration, so the      *)
(* stream is revealed as the loop goes: items is the part iterated so far. *)
(* A stream is either words only, of up to MaxWords words, or holds up to  *)
(* MaxPunct punctuation marks and at most MixedLen items.                  *)
(***************************************************************************)
\* the state at line 100: the job completed, the transcript was fetched
SegInit ==
    /\ audio_clip \in { c \in AudioClips : c.audio_data # <<>> }
    /\ tpc = "loop"
    /\ polls = 1
    /\ job_status = "COMPLETED"
    /\ deletes = 0
    /\ delete_error = None
    /\ error = None
    /\ profile \in { Some(p) : p \in Profiles }
    /\ items = <<>>
    /\ current_text = <<>>
    /\ current_start = None
    /\ current_end = None
    /\ transcripts = <<>>
    /\ returned = None

Iterate(item) ==
    LET b == LoopBody(Buffer(current_text, current_start, current_end, transcripts),
                      item, audio_clip.start)
    IN  /\ items' = Append(items, item)
        /\ current_text' = b.current_text
        /\ current_start' = b.current_start
        /\ current_end' = b.current_end
        /\ transcripts' = b.transcripts
        /\ UNCHANGED <<audio_clip, tpc, jobVars, profile, returned>>

\* _audio.py:104-128: the next item is a word
LoopWord ==
    /\ tpc = "loop"
    /\ IF NumPunct = 0 THEN Len(items) < MaxWords ELSE Len(items) < MixedLen
    /\ Iterate(WordItem(profile[1], NumWords + 1))

\* _audio.py:104, :130-144: the next item is a punctuation mark
LoopPunctuation ==
    /\ tpc = "loop"
    /\ Len(items) < MixedLen /\ NumPunct < MaxPunct
    /\ \E mark \in PunctuationMarks : Iterate(PunctItem(mark))

\* _audio.py:105-109 raising: an item without the expected fields
LoopError ==
    /\ tpc = "loop"
    /\ Raise("item")
    /\ DropLocals
    /\ UNCHANGED <<audio_clip, polls, job_status, deletes, delete_error, returned>>

\* _audio.py:146-157: the items are exhausted
Flush ==
    /\ tpc = "loop"
    /\ LET b == FlushBuffer(Buffer(current_text, current_start, current_end,
                                   transcripts), audio_clip.start)
       IN  /\ current_text' = b.current_text
           /\ current_start' = b.current_start
           /\ current_end' = b.current_end
           /\ transcripts' = b.transcripts
    /\ tpc' = "cleanup"
    /\ UNCHANGED <<audio_clip, jobVars, profile, items, returned>>

\* the components a specification does not run stay as they start
SegIdle ==
    /\ audio_clip = None /\ tpc = "entry" /\ polls = 0 /\ job_status = ""
    /\ deletes = 0 /\ delete_error = None /\ error = None /\ profile = None /\ items = <<>>
    /\ current_text = <<>> /\ current_start = None /\ current_end = None
    /\ transcripts = <<>> /\ returned = None

RepIdle ==
    /\ visual_analysis = "" /\ report_transcripts = <<>> /\ video_end = 0
    /\ rpc = "idle" /\ markdown = <<>> /\ report = None

PipeIdle ==
    /\ hpc = "idle" /\ workers = 0 /\ video_clip = None /\ vis = "none"
    /\ vpc = "" /\ visual_result = None /\ aud = "none" /\ exc = None
    /\ is_analyzed = FALSE /\ video_report = None

FrameIdle ==
    /\ fpc = "idle" /\ num_frames = 0 /\ sample_rate = 1 /\ fps = 0
    /\ total_frames = 0 /\ frame_num = 0 /\ frame_scores = <<>>
    /\ selected = <<>> /\ pending = {} /\ unreadable = 0 /\ completed = <<>>
    /\ keyframe_data = <<>>

OrchIdle ==
    /\ cuts = <<>> /\ concurrency_limit = 0 /\ extraction = <<>>
    /\ visual_task = <<>> /\ speech_task = <<>> /\ extracted_order = <<>>
    /\ outcomes = <<>>

SepIdle ==
    /\ spc = <<>> /\ sep_num_frames = <<>> /\ sep_keyframes = <<>>
    /\ sep_duration = <<>> /\ uploads = <<>> /\ bucket = <<>>
    /\ sep_result = <<>> /\ sep_exc = <<>>

PushIdle ==
    /\ ppc = "off" /\ push_path = "" /\ push_overwrite = FALSE
    /\ s3_object = None /\ push_log = <<>>

SceneIdle ==
    /\ scpc = "idle" /\ scene_duration = 0 /\ scene_polls = 0
    /\ scene_segments = None /\ video_cuts = None /\ scene_exc = None

PromptIdle ==
    /\ lpc = "idle" /\ prompt_clips = <<>> /\ max_frames = 0 /\ content = <<>>
    /\ sent_frames = 0 /\ frame_timestamps = <<>> /\ clip_index = 0
    /\ prompt_exc = None

SegOnly == UNCHANGED <<repVars, pipeVars, frameVars, orchVars, sepVars, pushVars, sceneVars, promptVars>>

SegNext ==
    \/ LoopWord /\ SegOnly
    \/ LoopPunctuation /\ SegOnly
    \/ LoopError /\ SegOnly
    \/ Flush /\ SegOnly
    \/ Cleanup /\ SegOnly
    \/ Except /\ SegOnly

InitSeg == SegInit /\ RepIdle /\ PipeIdle /\ FrameIdle /\ OrchIdle /\ SepIdle /\ PushIdle /\ SceneIdle /\ PromptIdle

SpecSeg == InitSeg /\ [][SegNext]_vars

(***************************************************************************)
(* transcribe_audio_s3 from its entry: the job is submitted, polled, its   *)
(* transcript fetched and segmented, the job deleted (_audio.py:45-174).   *)
(***************************************************************************)
JobNext ==
    \/ NoAudio /\ SegOnly
    \/ StartJob /\ SegOnly
    \/ StartJobRejected /\ SegOnly
    \/ Poll /\ SegOnly
    \/ PollError /\ SegOnly
    \/ Parse /\ SegOnly
    \/ ParseError /\ SegOnly
    \/ Cleanup /\ SegOnly
    \/ Except /\ SegOnly

InitJob == JobInit /\ RepIdle /\ PipeIdle /\ FrameIdle /\ OrchIdle /\ SepIdle /\ PushIdle /\ SceneIdle /\ PromptIdle

SpecJob == InitJob /\ [][JobNext]_vars

(***************************************************************************)
(* transcribe_audio_s3 with a job that may stay pending for ever.  The     *)
(* loop of _audio.py:71-82 is "while True" with a sleep of 5 s and no      *)
(* other exit than COMPLETED, FAILED or an exception, so a poll that       *)
(* answers IN_PROGRESS is possible however many polls went before.  polls  *)
(* counts the polls up to MaxPolls; beyond that it keeps their parity.     *)
(* The thread that runs the function is never starved: weak fairness of    *)
(* the function's steps as a whole; which answer the service gives is not  *)
(* subject to fairness.                                                    *)
(***************************************************************************)
\* _audio.py:71-82: one more turn of the loop, the job still IN_PROGRESS
PollStillPending ==
    /\ tpc = "poll" /\ polls >= MaxPolls
    /\ job_status' = "IN_PROGRESS"
    /\ polls' = IF polls = MaxPolls THEN MaxPolls + 1 ELSE MaxPolls
    /\ UNCHANGED <<audio_clip, tpc, error, deletes, delete_error, bufVars, returned>>

JobWaitNext ==
    \/ NoAudio /\ SegOnly
    \/ StartJob /\ SegOnly
    \/ StartJobRejected /\ SegOnly
    \/ Poll /\ SegOnly
    \/ PollStillPending /\ SegOnly
    \/ PollError /\ SegOnly
    \/ Parse /\ SegOnly
    \/ ParseError /\ SegOnly
    \/ Cleanup /\ SegOnly
    \/ Except /\ SegOnly

SpecJobWait == InitJob /\ [][JobWaitNext]_vars /\ WF_vars(JobWaitNext)

(***************************************************************************)
(* _merger.py: format_timestamp, merge_timeline, create_unified_report.    *)
(* The emoji of the headings and the star of the confidence indicator are  *)
(* written in ASCII.                                                       *)
(***************************************************************************)
\* f"{n:02d}"
Pad2(n) == IF n < 10 THEN "0" \o ToString(n) ELSE ToString(n)

\* _merger.py:25-33
format_timestamp(seconds) ==
    LET hours == seconds \div 3600
        minutes == (seconds % 3600) \div 60
        secs == seconds % 60
    IN  IF hours > 0
        THEN Pad2(hours) \o ":" \o Pad2(minutes) \o ":" \o Pad2(secs)
        ELSE Pad2(minutes) \o ":" \o Pad2(secs)

RECURSIVE Repeat(_, _)
Repeat(str, n) == IF n <= 0 THEN "" ELSE str \o Repeat(str, n - 1)

\* f"{confidence:.2f}" of a confidence given in hundredths
Fixed2(c) == ToString(c \div 100) \o "." \o Pad2(c % 100)

\* _merger.py:73  "*" * min(5, int(t.confidence * 5))
ConfidenceStars(c) == Repeat("*", Min(5, (c * 5) \div 100))

\* "".join(markdown)
RECURSIVE Concat(_)
Concat(pieces) ==
    IF pieces = <<>> THEN ""
    ELSE Concat(SubSeq(pieces, 1, Len(pieces) - 1)) \o pieces[Len(pieces)]

NoTranscriptionMarker == "*No transcription available*\n"

\* _merger.py:72-79: the three pieces of utterance number i
SegmentPieces(t, i) ==
    << "### [" \o format_timestamp(t.start) \o " - " \o format_timestamp(t.end)
         \o "] Segment " \o ToString(i) \o "\n",
       "**Confidence:** " \o ConfidenceStars(t.confidence)
         \o " (" \o Fixed2(t.confidence) \o ")\n\n",
       t.text \o "\n\n" >>

\* SegmentLoop walking the list from its end
RECURSIVE SegmentLoopReversed(_, _)
SegmentLoopReversed(ts, n) ==
    IF n = 0 THEN <<>>
    ELSE SegmentLoopReversed(ts, n - 1) \o SegmentPieces(ts[Len(ts) + 1 - n], n)

\* _merger.py:71-79: for i, t in enumerate(transcripts, 1), the first n turns
RECURSIVE SegmentLoop(_, _)
SegmentLoop(ts, n) ==
    IF n = 0 THEN <<>>
    ELSE SegmentLoop(ts, n - 1) \o SegmentPieces(ts[n], n)

\* AudioPieces with the test of line 68 dropped: nothing for an empty list
AudioPiecesNoMarker(ts) == SegmentLoop(ts, Len(ts))

\* _merger.py:68-79
AudioPieces(ts) ==
    IF ts = <<>> THEN <<NoTranscriptionMarker>> ELSE SegmentLoop(ts, Len(ts))

\* _merger.py:52-66: the list "markdown" up to the audio heading
HeadPieces(visual, ts, duration) ==
    << "# Video Analysis Report\n",
       "**Duration:** " \o format_timestamp(duration) \o "\n",
       "**Total Transcript Segments:** " \o ToString(Len(ts)) \o "\n",
       "\n---\n",
       "## Visual Analysis\n",
       visual,
       "\n\n---\n",
       "## Audio Transcription\n" >>

\* _merger.py:36-81: the list "markdown" at line 81
merge_timeline(visual, ts, duration) ==
    HeadPieces(visual, ts, duration) \o AudioPieces(ts)

\* the utterance lists and the inputs of the stand-alone specification
ReportTranscripts ==
    { Segment(its, 0).transcripts : its \in SampleStreams }
    \cup { << Transcript("late", 70, 75, 50), Transcript("early", 0, 3, 100) >>,
           << Transcript("long", 3599, 3725, 99) >> }

VisualFindings == {"", "Goal at 00:12"}
Durations == {0, 65, 3725}
SynthesisTexts == {"## Unified report"}

ReportInit ==
    /\ visual_analysis \in VisualFindings
    /\ report_transcripts \in ReportTranscripts
    /\ video_end \in Durations
    /\ rpc = "client"
    /\ markdown = <<>>
    /\ report = None

\* _merger.py:108 and :10-19: the client is created
GetClient ==
    /\ rpc = "client"
    /\ rpc' = "converse"
    /\ UNCHANGED <<visual_analysis, report_transcripts, video_end, markdown, report>>

\* _merger.py:20-22 re-raising into line 108, which no try block encloses
GetClientRaises ==
    /\ rpc = "client"
    /\ rpc' = "raised"
    /\ UNCHANGED <<visual_analysis, report_transcripts, video_end, markdown, report>>

\* _merger.py:145-157: the model answers
Synthesize ==
    /\ rpc = "converse"
    /\ \E text \in SynthesisTexts : report' = Some(text)
    /\ rpc' = "returned"
    /\ UNCHANGED <<visual_analysis, report_transcripts, video_end, markdown>>

\* _merger.py:146-155 raising (the call, or reading the response) into the
\* except clause of line 159
SynthesisRaises ==
    /\ rpc = "converse"
    /\ rpc' = "merge"
    /\ UNCHANGED <<visual_analysis, report_transcripts, video_end, markdown, report>>

\* _merger.py:162 and :36-81: the fallback
Fallback ==
    /\ rpc = "merge"
    /\ markdown' = merge_timeline(visual_analysis, report_transcripts, video_end)
    /\ report' = Some(Concat(markdown'))
    /\ rpc' = "returned"
    /\ UNCHANGED <<visual_analysis, report_transcripts, video_end>>

ReportOnly == UNCHANGED <<segVars, pipeVars, frameVars, orchVars, sepVars, pushVars, sceneVars, promptVars>>

ReportNext ==
    \/ GetClient /\ ReportOnly
    \/ GetClientRaises /\ ReportOnly
    \/ Synthesize /\ ReportOnly
    \/ SynthesisRaises /\ ReportOnly
    \/ Fallback /\ ReportOnly

InitReport == SegIdle /\ ReportInit /\ PipeIdle /\ FrameIdle /\ OrchIdle /\ SepIdle /\ PushIdle /\ SceneIdle /\ PromptIdle

SpecReport == InitReport /\ [][ReportNext]_vars

(***************************************************************************)
(* src/ui.py: the Analyze Video handler (lines 302-349) and                *)
(* analyze_video_parallel (lines 147-162).  The pool runs at most          *)
(* "workers" tasks at a time and hands them out in submission order.  The  *)
(* call of separator is taken by its outcomes: it returns the two clips or *)
(* it raises.                                                              *)
(***************************************************************************)
\* most workers of the pool
MaxCpu == 2
\* most keyframes of the clip separator returns
MaxKeyframes == 1

Running == (IF vis = "running" THEN 1 ELSE 0) + (IF aud = "running" THEN 1 ELSE 0)

PipeInit ==
    /\ hpc = "clicked"
    /\ workers \in 1..MaxCpu
    /\ video_clip = None
    /\ vis = "none" /\ vpc = "" /\ visual_result = None
    /\ aud = "none"
    /\ exc = None
    /\ is_analyzed \in BOOLEAN
    /\ video_report = None

taskVars == <<vis, vpc, visual_result, aud>>

\* ui.py:303-319, :153: is_analyzed is cleared, the pool is created
Click ==
    /\ hpc = "clicked"
    /\ is_analyzed' = FALSE
    /\ hpc' = "extract"
    /\ UNCHANGED <<workers, video_clip, taskVars, exc, video_report, segVars, repVars>>

\* ui.py:154: separator returns the audio clip and the video clip
Extract ==
    /\ hpc = "extract"
    /\ \E n \in 0..MaxKeyframes, d \in Durations :
         video_clip' = Some([keyframes |-> n, end |-> d])
    /\ audio_clip' = [audio_data |-> <<"audio/video_full.mp3">>, start |-> 0]
    /\ hpc' = "submit_visual"
    /\ UNCHANGED <<workers, taskVars, exc, is_analyzed, video_report, repVars,
                   tpc, jobVars, bufVars, returned>>

\* ExtractRaises with the exception logged and the run going on without clips
ExtractRaisesSwallowed ==
    /\ hpc = "extract"
    /\ exc' = Some("separator")
    /\ video_clip' = Some([keyframes |-> 0, end |-> 0])
    /\ audio_clip' = [audio_data |-> <<>>, start |-> 0]
    /\ hpc' = "submit_visual"
    /\ UNCHANGED <<workers, taskVars, is_analyzed, video_report, repVars,
                   tpc, jobVars, bufVars, returned>>

\* ui.py:154: separator raises; the with block is left with the exception
ExtractRaises ==
    /\ hpc = "extract"
    /\ exc' = Some("separator")
    /\ hpc' = "shutdown"
    /\ UNCHANGED <<workers, video_clip, taskVars, is_analyzed, video_report,
                   segVars, repVars>>

\* ui.py:156
SubmitVisual ==
    /\ hpc = "submit_visual"
    /\ vis' = "queued"
    /\ hpc' = "submit_audio"
    /\ UNCHANGED <<workers, video_clip, vpc, visual_result, aud, exc, is_analyzed,
                   video_report, segVars, repVars>>

\* ui.py:157
SubmitAudio ==
    /\ hpc = "submit_audio"
    /\ aud' = "queued"
    /\ hpc' = "wait_visual"
    /\ UNCHANGED <<workers, video_clip, vis, vpc, visual_result, exc, is_analyzed,
                   video_report, segVars, repVars>>

\* a free worker takes the visual task, the first one submitted
StartVisual ==
    /\ vis = "queued" /\ Running < workers
    /\ vis' = "running" /\ vpc' = "prompt"
    /\ UNCHANGED <<hpc, workers, video_clip, visual_result, aud, exc, is_analyzed,
                   video_report, segVars, repVars>>

\* a free worker takes the audio task once the visual task has been taken
StartAudio ==
    /\ aud = "queued" /\ vis # "queued" /\ Running < workers
    /\ aud' = "running"
    /\ UNCHANGED <<hpc, workers, video_clip, vis, vpc, visual_result, exc,
                   is_analyzed, video_report, segVars, repVars>>

\* _llm.py:145 and :18-115: create_images_prompt builds the message
VisualPrompt ==
    /\ vis = "running" /\ vpc = "prompt"
    /\ video_clip[1].keyframes > 0
    /\ vpc' = "converse"
    /\ UNCHANGED <<hpc, workers, video_clip, vis, visual_result, aud, exc,
                   is_analyzed, video_report, segVars, repVars>>

\* _llm.py:114: frame_timestamps[0] of an empty list raises IndexError
VisualPromptRaises ==
    /\ vis = "running" /\ vpc = "prompt"
    /\ video_clip[1].keyframes = 0
    /\ vis' = "failed" /\ vpc' = ""
    /\ UNCHANGED <<hpc, workers, video_clip, visual_result, aud, exc, is_analyzed,
                   video_report, segVars, repVars>>

\* _llm.py:148-157: the model answers
VisualConverse ==
    /\ vis = "running" /\ vpc = "converse"
    /\ \E text \in VisualFindings : visual_result' = Some(text)
    /\ vis' = "ok" /\ vpc' = ""
    /\ UNCHANGED <<hpc, workers, video_clip, aud, exc, is_analyzed, video_report,
                   segVars, repVars>>

\* _llm.py:148-157 raising: the call fails or the response has no text
VisualConverseRaises ==
    /\ vis = "running" /\ vpc = "converse"
    /\ vis' = "failed" /\ vpc' = ""
    /\ UNCHANGED <<hpc, workers, video_clip, visual_result, aud, exc, is_analyzed,
                   video_report, segVars, repVars>>

\* transcribe_audio_s3 running as the audio task: one step of it
AudioStep(step) ==
    /\ aud = "running"
    /\ step
    /\ UNCHANGED <<pipeVars, repVars>>

\* transcribe_audio_s3 has returned: the future is done
AudioDone ==
    /\ aud = "running" /\ tpc = "returned"
    /\ aud' = "done"
    /\ UNCHANGED <<hpc, workers, video_clip, vis, vpc, visual_result, exc,
                   is_analyzed, video_report, segVars, repVars>>

\* ui.py:159: visual_future.result() returns
VisualResult ==
    /\ hpc = "wait_visual" /\ vis = "ok"
    /\ hpc' = "wait_audio"
    /\ UNCHANGED <<workers, video_clip, taskVars, exc, is_analyzed, video_report,
                   segVars, repVars>>

\* ui.py:159: visual_future.result() re-raises the task's exception
VisualResultRaises ==
    /\ hpc = "wait_visual" /\ vis = "failed"
    /\ exc' = Some("analyse_images")
    /\ hpc' = "shutdown"
    /\ UNCHANGED <<workers, video_clip, taskVars, is_analyzed, video_report,
                   segVars, repVars>>

\* ui.py:160: audio_future.result() returns (transcribe_audio_s3 raises nothing)
AudioResult ==
    /\ hpc = "wait_audio" /\ aud = "done"
    /\ hpc' = "shutdown"
    /\ UNCHANGED <<workers, video_clip, taskVars, exc, is_analyzed, video_report,
                   segVars, repVars>>

TasksOver == vis \in {"none", "ok", "failed"} /\ aud \in {"none", "done"}

\* ui.py:153, :162 and :321-328: the with block ends once every submitted task
\* is over; analyze_video_parallel returns and create_unified_report is called
Return ==
    /\ hpc = "shutdown" /\ TasksOver /\ exc = None
    /\ hpc' = "report"
    /\ visual_analysis' = visual_result[1]
    /\ report_transcripts' = returned[1]
    /\ video_end' = video_clip[1].end
    /\ rpc' = "client"
    /\ UNCHANGED <<workers, video_clip, taskVars, exc, is_analyzed, video_report,
                   segVars, markdown, report>>

\* ui.py:153 and :346-349: the with block ends once every submitted task is
\* over; the exception reaches the handler, which shows the error
Fail ==
    /\ hpc = "shutdown" /\ TasksOver /\ exc # None
    /\ hpc' = "error"
    /\ UNCHANGED <<workers, video_clip, taskVars, exc, is_analyzed, video_report,
                   segVars, repVars>>

\* create_unified_report running in the handler: one step of it
ReportRun(step) ==
    /\ hpc = "report"
    /\ step
    /\ UNCHANGED <<pipeVars, segVars>>

\* ui.py:326-340: the report is stored
Store ==
    /\ hpc = "report" /\ rpc = "returned"
    /\ video_report' = report
    /\ is_analyzed' = TRUE
    /\ hpc' = "done"
    /\ UNCHANGED <<workers, video_clip, taskVars, exc, segVars, repVars>>

\* ui.py:326 raising into :346-349
ReportRaises ==
    /\ hpc = "report" /\ rpc = "raised"
    /\ exc' = Some("create_unified_report")
    /\ hpc' = "error"
    /\ UNCHANGED <<workers, video_clip, taskVars, is_analyzed, video_report,
                   segVars, repVars>>

PipeOnly == UNCHANGED <<frameVars, orchVars, sepVars, pushVars, sceneVars, promptVars>>

PipeNext ==
    \/ Click /\ PipeOnly
    \/ Extract /\ PipeOnly
    \/ ExtractRaises /\ PipeOnly
    \/ SubmitVisual /\ PipeOnly
    \/ SubmitAudio /\ PipeOnly
    \/ StartVisual /\ PipeOnly
    \/ StartAudio /\ PipeOnly
    \/ VisualPrompt /\ PipeOnly
    \/ VisualPromptRaises /\ PipeOnly
    \/ VisualConverse /\ PipeOnly
    \/ VisualConverseRaises /\ PipeOnly
    \/ AudioStep(StartJob) /\ PipeOnly
    \/ AudioStep(StartJobRejected) /\ PipeOnly
    \/ AudioStep(Poll) /\ PipeOnly
    \/ AudioStep(PollError) /\ PipeOnly
    \/ AudioStep(Parse) /\ PipeOnly
    \/ AudioStep(ParseError) /\ PipeOnly
    \/ AudioStep(Cleanup) /\ PipeOnly
    \/ AudioStep(Except) /\ PipeOnly
    \/ AudioDone /\ PipeOnly
    \/ VisualResult /\ PipeOnly
    \/ VisualResultRaises /\ PipeOnly
    \/ AudioResult /\ PipeOnly
    \/ Return /\ PipeOnly
    \/ ReportRun(GetClient) /\ PipeOnly
    \/ ReportRun(GetClientRaises) /\ PipeOnly
    \/ ReportRun(Synthesize) /\ PipeOnly
    \/ ReportRun(SynthesisRaises) /\ PipeOnly
    \/ ReportRun(Fallback) /\ PipeOnly
    \/ Fail /\ PipeOnly
    \/ Store /\ PipeOnly
    \/ ReportRaises /\ PipeOnly

InitPipe == SegIdle /\ RepIdle /\ PipeInit /\ FrameIdle /\ OrchIdle /\ SepIdle /\ PushIdle /\ SceneIdle /\ PromptIdle

SpecPipe == InitPipe /\ [][PipeNext]_vars

(***************************************************************************)
(* extract_best_frames_fast (core/_transform.py): the frames at every      *)
(* sample_rate-th position are scored, the num_frames best are re-read and *)
(* saved by a pool of threads, and the saved ones are returned by          *)
(* timestamp.  A timestamp frame_num / fps is kept as the fraction itself. *)
(***************************************************************************)
MaxTotalFrames == 4
MaxBudget == 4
SaveThreads == 4

Scores == {0, 1, 2}
SampleRates == {1, 2}
FrameRates == {0, 2}

Timestamp(n, rate) == [num |-> n, den |-> rate]
TsLess(a, b) == a.num * b.den < b.num * a.den

\* list.sort: ascending by the comparison less, given as less[i][j] for the
\* positions i, j of the list; elements that compare equal keep their order
SortBy(seq, less) ==
    LET n == Len(seq)
        rank(i) == 1 + Cardinality({ j \in 1..n :
                          \/ less[j][i]
                          \/ (~less[i][j] /\ j < i) })
    IN  [p \in 1..n |-> seq[CHOOSE i \in 1..n : rank(i) = p]]

Take(seq, k) == SubSeq(seq, 1, Min(k, Len(seq)))

\* ByScoreDescending as an ascending sort turned round: of two frames with
\* the same score the later one comes first
ByScoreReversed(seq) ==
    [i \in 1..Len(seq) |-> [j \in 1..Len(seq) |->
        \/ seq[i].score > seq[j].score
        \/ (seq[i].score = seq[j].score /\ i > j)]]

\* key=lambda x: x['score'], reverse=True
ByScoreDescending(seq) ==
    [i \in 1..Len(seq) |-> [j \in 1..Len(seq) |-> seq[i].score > seq[j].score]]

\* key=lambda x: x['frame_num']
ByFrameNum(seq) ==
    [i \in 1..Len(seq) |-> [j \in 1..Len(seq) |-> seq[i].frame_num < seq[j].frame_num]]

\* ByTimestamp with the comparison turned round (reverse=True)
ByTimestampDescending(seq) ==
    [i \in 1..Len(seq) |-> [j \in 1..Len(seq) |-> TsLess(seq[j][2], seq[i][2])]]

\* key=lambda x: x[1], the timestamp of the pair
ByTimestamp(seq) ==
    [i \in 1..Len(seq) |-> [j \in 1..Len(seq) |-> TsLess(seq[i][2], seq[j][2])]]

\* _transform.py:91-93
Select(scores, k) ==
    LET best == Take(SortBy(scores, ByScoreDescending(scores)), k)
    IN  SortBy(best, ByFrameNum(best))

\* _transform.py:121 left out: the completion order is returned
CompletionOrder(data) == data

\* _transform.py:121
SortByTimestamp(data) == SortBy(data, ByTimestamp(data))

Pad4(n) ==
    IF n < 10 THEN "000" \o ToString(n)
    ELSE IF n < 100 THEN "00" \o ToString(n)
    ELSE IF n < 1000 THEN "0" \o ToString(n) ELSE ToString(n)

\* _transform.py:103; idx counts from 0
OutputPath(idx) == "frame_" \o Pad4(idx) \o ".jpg"

FrameInit ==
    /\ fpc = "open"
    /\ num_frames \in 0..MaxBudget
    /\ sample_rate \in SampleRates
    /\ fps = 0 /\ total_frames = 0 /\ frame_num = 0
    /\ frame_scores = <<>> /\ selected = <<>> /\ pending = {}
    /\ unreadable = 0 /\ completed = <<>> /\ keyframe_data = <<>>

\* _transform.py:57-59
Open ==
    /\ fpc = "open"
    /\ fps' \in FrameRates
    /\ total_frames' \in 0..MaxTotalFrames
    /\ fpc' = "score"
    /\ UNCHANGED <<num_frames, sample_rate, frame_num, frame_scores, selected,
                   pending, unreadable, keyframe_data, completed>>

\* _transform.py:67-86, one turn of the loop with a frame read
ScoreFrame ==
    /\ fpc = "score" /\ frame_num < total_frames /\ fps # 0
    /\ \E score \in (IF frame_scores = <<>> THEN {0} ELSE Scores) :
          frame_scores' = Append(frame_scores,
                                 [frame_num |-> frame_num,
                                  timestamp |-> Timestamp(frame_num, fps),
                                  score |-> score])
    /\ frame_num' = frame_num + sample_rate
    /\ UNCHANGED <<fpc, num_frames, sample_rate, fps, total_frames, selected,
                   pending, unreadable, keyframe_data, completed>>

\* _transform.py:83 with fps = 0: the division raises
ScoreFrameRaises ==
    /\ fpc = "score" /\ frame_num < total_frames /\ fps = 0
    /\ fpc' = "raised"
    /\ UNCHANGED <<num_frames, sample_rate, fps, total_frames, frame_num,
                   frame_scores, selected, pending, unreadable, keyframe_data, completed>>

\* _transform.py:67-71 and 88-114: the range is exhausted or a read fails;
\* the best frames are selected and one future per selected frame is made
SelectFrames ==
    /\ fpc = "score"
    /\ selected' = Select(frame_scores, num_frames)
    /\ pending' = 1..Len(selected')
    /\ fpc' = "save"
    /\ UNCHANGED <<num_frames, sample_rate, fps, total_frames, frame_num,
                   frame_scores, unreadable, keyframe_data, completed>>

\* a future can have completed when a thread of the pool has taken it
Taken(i) == Cardinality({ j \in pending : j < i }) < SaveThreads

\* _transform.py:96-106 and 115-118: the next completed future saved its frame
FrameSaved ==
    /\ fpc = "save"
    /\ \E i \in pending :
          /\ Taken(i)
          /\ keyframe_data' = Append(keyframe_data,
                                     <<OutputPath(i - 1), selected[i].timestamp>>)
          /\ pending' = pending \ {i}
          /\ completed' = Append(completed, i)
    /\ UNCHANGED <<fpc, num_frames, sample_rate, fps, total_frames, frame_num,
                   frame_scores, selected, unreadable>>

\* _transform.py:99-107 and 115-117: the next completed future could not
\* read its frame again and returned None
FrameUnreadable ==
    /\ fpc = "save"
    /\ \E i \in pending :
          /\ Taken(i)
          /\ pending' = pending \ {i}
          /\ completed' = Append(completed, i)
    /\ unreadable' = unreadable + 1
    /\ UNCHANGED <<fpc, num_frames, sample_rate, fps, total_frames, frame_num,
                   frame_scores, selected, keyframe_data>>

\* _transform.py:121-122
ReturnFrames ==
    /\ fpc = "save" /\ pending = {}
    /\ keyframe_data' = SortByTimestamp(keyframe_data)
    /\ fpc' = "returned"
    /\ UNCHANGED <<num_frames, sample_rate, fps, total_frames, frame_num,
                   frame_scores, selected, pending, unreadable, completed>>

FramesOnly == UNCHANGED <<segVars, repVars, pipeVars, orchVars, sepVars, pushVars, sceneVars, promptVars>>

FrameNext ==
    \/ Open /\ FramesOnly
    \/ ScoreFrame /\ FramesOnly
    \/ ScoreFrameRaises /\ FramesOnly
    \/ SelectFrames /\ FramesOnly
    \/ FrameSaved /\ FramesOnly
    \/ FrameUnreadable /\ FramesOnly
    \/ ReturnFrames /\ FramesOnly

InitFrames == SegIdle /\ RepIdle /\ PipeIdle /\ FrameInit /\ OrchIdle /\ SepIdle /\ PushIdle /\ SceneIdle /\ PromptIdle

SpecFrames == InitFrames /\ [][FrameNext]_vars

(***************************************************************************)
(* The Orchestrator over several cuts, process(cuts, concurrency_limit).   *)
(* The sources hold no driver for more than one cut (ui.py runs the        *)
(* whole-video mode only), so this component follows section 4.4 of the    *)
(* specification: the extractions run on a pool of concurrency_limit       *)
(* workers, a cut's two analyses start when its extraction is over and are *)
(* joined, a failure stays with its cut, and an outcome is handed to the   *)
(* caller once the outcomes of all cuts submitted before it were.          *)
(***************************************************************************)
MaxCuts == 3
MaxLimit == 2

CutNames == <<"A", "B", "C", "D", "E">>

OrchInit ==
    /\ \E n \in 1..MaxCuts : 
          /\ cuts = SubSeq(CutNames, 1, n)
          /\ extraction = [i \in 1..n |-> "queued"]
          /\ visual_task = [i \in 1..n |-> "none"]
          /\ speech_task = [i \in 1..n |-> "none"]
    /\ concurrency_limit \in 1..MaxLimit
    /\ extracted_order = <<>>
    /\ outcomes = <<>>

Extracting == { i \in 1..Len(cuts) : extraction[i] = "running" }
Over(task) == task \in {"ok", "failed"}

\* a cut is done when its extraction failed or both its analyses are joined
CutDone(i) ==
    \/ extraction[i] = "failed"
    \/ Over(visual_task[i]) /\ Over(speech_task[i])

Outcome(i) ==
    [cut |-> cuts[i],
     result |-> IF extraction[i] = "ok" /\ visual_task[i] = "ok"
                   /\ speech_task[i] = "ok" THEN "ok" ELSE "fail"]

\* a worker of the pool takes the next extraction in submission order
StartExtraction ==
    /\ Cardinality(Extracting) < concurrency_limit
    /\ \E i \in 1..Len(cuts) :
          /\ extraction[i] = "queued"
          /\ \A j \in 1..(i - 1) : extraction[j] # "queued"
          /\ extraction' = [extraction EXCEPT ![i] = "running"]
    /\ UNCHANGED <<cuts, concurrency_limit, visual_task, speech_task,
                   extracted_order, outcomes>>

\* an extraction completes; the cut's two analyses are dispatched
ExtractionDone ==
    /\ \E i \in Extracting :
          /\ extraction' = [extraction EXCEPT ![i] = "ok"]
          /\ visual_task' = [visual_task EXCEPT ![i] = "running"]
          /\ speech_task' = [speech_task EXCEPT ![i] = "running"]
          /\ extracted_order' = Append(extracted_order, i)
    /\ UNCHANGED <<cuts, concurrency_limit, outcomes>>

\* an extraction fails: ExtractionError, fatal for its cut only
ExtractionFails ==
    /\ \E i \in Extracting :
          /\ extraction' = [extraction EXCEPT ![i] = "failed"]
          /\ extracted_order' = Append(extracted_order, i)
    /\ UNCHANGED <<cuts, concurrency_limit, visual_task, speech_task, outcomes>>

\* the visual analysis of a cut ends
VisualTaskEnds ==
    /\ \E i \in 1..Len(cuts), r \in {"ok", "failed"} :
          /\ visual_task[i] = "running"
          /\ visual_task' = [visual_task EXCEPT ![i] = r]
    /\ UNCHANGED <<cuts, concurrency_limit, extraction, speech_task,
                   extracted_order, outcomes>>

\* the speech analysis of a cut ends
SpeechTaskEnds ==
    /\ \E i \in 1..Len(cuts), r \in {"ok", "failed"} :
          /\ speech_task[i] = "running"
          /\ speech_task' = [speech_task EXCEPT ![i] = r]
    /\ UNCHANGED <<cuts, concurrency_limit, extraction, visual_task,
                   extracted_order, outcomes>>

Reported == { outcomes[k].cut : k \in 1..Len(outcomes) }

\* ReportOutcome handing over any finished cut at once
ReportAsCompleted ==
    /\ \E i \in 1..Len(cuts) :
          /\ cuts[i] \notin Reported
          /\ CutDone(i)
          /\ outcomes' = Append(outcomes, Outcome(i))
    /\ UNCHANGED <<cuts, concurrency_limit, extraction, visual_task,
                   speech_task, extracted_order>>

\* the outcome of the next cut in submission order is handed to the caller
ReportOutcome ==
    /\ Len(outcomes) < Len(cuts)
    /\ CutDone(Len(outcomes) + 1)
    /\ outcomes' = Append(outcomes, Outcome(Len(outcomes) + 1))
    /\ UNCHANGED <<cuts, concurrency_limit, extraction, visual_task,
                   speech_task, extracted_order>>

OrchOnly == UNCHANGED <<segVars, repVars, pipeVars, frameVars, sepVars, pushVars, sceneVars, promptVars>>

OrchNext ==
    \/ StartExtraction /\ OrchOnly
    \/ ExtractionDone /\ OrchOnly
    \/ ExtractionFails /\ OrchOnly
    \/ VisualTaskEnds /\ OrchOnly
    \/ SpeechTaskEnds /\ OrchOnly
    \/ ReportOutcome /\ OrchOnly

InitOrch == SegIdle /\ RepIdle /\ PipeIdle /\ FrameIdle /\ OrchInit /\ SepIdle /\ PushIdle /\ SceneIdle /\ PromptIdle

SpecOrch == InitOrch /\ [][OrchNext]_vars

(***************************************************************************)
(* separator (core/_transform.py:124-219).  The function holds no state of *)
(* its own, so calls made for different videos at the same time (one per   *)
(* browser session of the front end) share nothing but the bucket: the     *)
(* model runs up to two calls side by side.                                *)
(***************************************************************************)
MaxCalls == 2
MaxUploadFrames == 2
UploadThreads == 16

Calls == 1..MaxCalls
SepFrameRate == 2
SepDurations == {1, 3}

\* _transform.py:180
KeyframeKey(idx) == "keyframes/video_" \o ToString(idx) \o ".jpg"
\* _transform.py:189
AudioKey == "audio/video_full.mp3"

AllKeys == { KeyframeKey(i) : i \in 0..MaxUploadFrames } \cup {AudioKey}

\* what extract_best_frames_fast returns for n saved frames
KeyframeData(n) ==
    [i \in 1..n |-> <<OutputPath(i - 1), Timestamp(i - 1, SepFrameRate)>>]

\* the key task number t of a call writes: the keyframes first, the audio last
UploadKey(c, t) ==
    IF t <= Len(sep_keyframes[c]) THEN KeyframeKey(t - 1) ELSE AudioKey

SepInit ==
    /\ spc = [c \in Calls |-> "idle"]
    /\ sep_num_frames \in [Calls -> 0..MaxUploadFrames]
    /\ sep_keyframes = [c \in Calls |-> <<>>]
    /\ sep_duration = [c \in Calls |-> None]
    /\ uploads = [c \in Calls |-> <<>>]
    /\ bucket = [k \in AllKeys |-> 0]
    /\ sep_result = [c \in Calls |-> None]
    /\ sep_exc = [c \in Calls |-> None]

SepGoto(c, to) == spc' = [spc EXCEPT ![c] = to]

\* any exception leaves through the finally clause of line 218
SepRaise(c, e) ==
    /\ SepGoto(c, "raised")
    /\ sep_exc' = [sep_exc EXCEPT ![c] = Some(e)]

\* _transform.py:141-146
SepCall(c) ==
    /\ spc[c] = "idle"
    /\ SepGoto(c, "frames")
    /\ UNCHANGED <<sep_num_frames, sep_keyframes, sep_duration, uploads, bucket,
                   sep_result, sep_exc>>

\* _transform.py:150-155: extract_best_frames_fast returns at most num_frames pairs
SepExtractFrames(c) ==
    /\ spc[c] = "frames"
    /\ \E n \in 0..sep_num_frames[c] :
          sep_keyframes' = [sep_keyframes EXCEPT ![c] = KeyframeData(n)]
    /\ SepGoto(c, "probe")
    /\ UNCHANGED <<sep_num_frames, sep_duration, uploads, bucket, sep_result, sep_exc>>

\* _transform.py:150-155 raising
SepExtractFramesRaises(c) ==
    /\ spc[c] = "frames"
    /\ SepRaise(c, "extract_best_frames_fast")
    /\ UNCHANGED <<sep_num_frames, sep_keyframes, sep_duration, uploads, bucket,
                   sep_result>>

\* _transform.py:158-167: the duration is probed and the audio track extracted
SepProbeAndAudio(c) ==
    /\ spc[c] = "probe"
    /\ \E d \in SepDurations : sep_duration' = [sep_duration EXCEPT ![c] = Some(d)]
    /\ SepGoto(c, "submit")
    /\ UNCHANGED <<sep_num_frames, sep_keyframes, uploads, bucket, sep_result, sep_exc>>

\* _transform.py:158-167 raising: ffprobe or ffmpeg fails (no audio track)
SepProbeAndAudioRaises(c) ==
    /\ spc[c] = "probe"
    /\ SepRaise(c, "ffmpeg")
    /\ UNCHANGED <<sep_num_frames, sep_keyframes, sep_duration, uploads, bucket,
                   sep_result>>

Writing(c) == { t \in 1..Len(uploads[c]) : uploads[c][t] = "writing" }
UploadsOver(c) == \A t \in 1..Len(uploads[c]) : uploads[c][t] \in {"done", "failed"}

\* _transform.py:171-191: one upload task per keyframe, then the audio task
SepSubmit(c) ==
    /\ spc[c] = "submit"
    /\ uploads' = [uploads EXCEPT ![c] = [t \in 1..(Len(sep_keyframes[c]) + 1) |-> "queued"]]
    /\ SepGoto(c, "join")
    /\ UNCHANGED <<sep_num_frames, sep_keyframes, sep_duration, bucket, sep_result,
                   sep_exc>>

\* a thread of the call's pool of 16 takes the next task and starts to write
UploadStart(c) ==
    /\ Cardinality(Writing(c)) < UploadThreads
    /\ \E t \in 1..Len(uploads[c]) :
          /\ uploads[c][t] = "queued"
          /\ \A u \in 1..(t - 1) : uploads[c][u] # "queued"
          /\ uploads' = [uploads EXCEPT ![c][t] = "writing"]
    /\ UNCHANGED <<spc, sep_num_frames, sep_keyframes, sep_duration, bucket,
                   sep_result, sep_exc>>

\* s3.upload_file / upload_fileobj returns: the object is stored under the key
UploadDone(c) ==
    /\ \E t \in Writing(c) :
          /\ uploads' = [uploads EXCEPT ![c][t] = "done"]
          /\ bucket' = [bucket EXCEPT ![UploadKey(c, t)] = c]
    /\ UNCHANGED <<spc, sep_num_frames, sep_keyframes, sep_duration, sep_result,
                   sep_exc>>

\* s3.upload_file / upload_fileobj raises
UploadFails(c) ==
    /\ \E t \in Writing(c) : uploads' = [uploads EXCEPT ![c][t] = "failed"]
    /\ UNCHANGED <<spc, sep_num_frames, sep_keyframes, sep_duration, bucket,
                   sep_result, sep_exc>>

\* _transform.py:194-202: every future gave its result; the AudioClip is made
SepJoin(c) ==
    /\ spc[c] = "join" /\ UploadsOver(c)
    /\ \A t \in 1..Len(uploads[c]) : uploads[c][t] = "done"
    /\ SepGoto(c, "video_clip")
    /\ UNCHANGED <<sep_num_frames, sep_keyframes, sep_duration, uploads, bucket,
                   sep_result, sep_exc>>

\* _transform.py:194-195 and :171: future.result() re-raises an upload's
\* exception; the with block lets the other uploads finish first
SepJoinRaises(c) ==
    /\ spc[c] = "join" /\ UploadsOver(c)
    /\ \E t \in 1..Len(uploads[c]) : uploads[c][t] = "failed"
    /\ SepRaise(c, "upload")
    /\ UNCHANGED <<sep_num_frames, sep_keyframes, sep_duration, uploads, bucket,
                   sep_result>>

\* _transform.py:205-213 with datamodel.py:40-45: VideoClip is a dataclass
\* with the fields keyframes and source_cut only, so the call with start,
\* end and timestamps raises TypeError
SepVideoClipRaises(c) ==
    /\ spc[c] = "video_clip"
    /\ SepRaise(c, "TypeError")
    /\ UNCHANGED <<sep_num_frames, sep_keyframes, sep_duration, uploads, bucket,
                   sep_result>>

SepOnly == UNCHANGED <<segVars, repVars, pipeVars, frameVars, orchVars, pushVars, sceneVars, promptVars>>

SepNext ==
    \/ \E c \in Calls : SepCall(c) /\ SepOnly
    \/ \E c \in Calls : SepExtractFrames(c) /\ SepOnly
    \/ \E c \in Calls : SepExtractFramesRaises(c) /\ SepOnly
    \/ \E c \in Calls : SepProbeAndAudio(c) /\ SepOnly
    \/ \E c \in Calls : SepProbeAndAudioRaises(c) /\ SepOnly
    \/ \E c \in Calls : SepSubmit(c) /\ SepOnly
    \/ \E c \in Calls : UploadStart(c) /\ SepOnly
    \/ \E c \in Calls : UploadDone(c) /\ SepOnly
    \/ \E c \in Calls : UploadFails(c) /\ SepOnly
    \/ \E c \in Calls : SepJoin(c) /\ SepOnly
    \/ \E c \in Calls : SepJoinRaises(c) /\ SepOnly
    \/ \E c \in Calls : SepVideoClipRaises(c) /\ SepOnly

InitSep == SegIdle /\ RepIdle /\ PipeIdle /\ FrameIdle /\ OrchIdle /\ SepInit /\ PushIdle /\ SceneIdle /\ PromptIdle

SpecSep == InitSep /\ [][SepNext]_vars

(***************************************************************************)
(* _push_video_to_s3 (core/_s3.py), called one call after the other for    *)
(* one bucket and one object_path, as push_video_to_s3 of vidcrawl/main.py *)
(* does with "videos/demo.mp4".  The content of a local file is its path.  *)
(***************************************************************************)
MaxPushes == 2

LocalFiles == {"a.mp4", "b.mp4"}
VideoPaths == LocalFiles \cup {"missing.mp4"}

\* SkipUpload with the existence check lost: the upload is never skipped
SkipUploadAlways(overwrite, exists) == FALSE

\* _s3.py:29: "not overwrite and _s3_file_exists(...)"
SkipUpload(overwrite, exists) == ~overwrite /\ exists

PushInit ==
    /\ ppc = "idle" /\ push_path = "" /\ push_overwrite = FALSE
    /\ s3_object \in {None, Some("old.mp4")}
    /\ push_log = <<>>

\* the record of a call that is over: how it ended, whether it wrote, and
\* the object before and after
PushOver(result, uploaded, after) ==
    /\ push_log' = Append(push_log, [video_path |-> push_path,
                                     overwrite |-> push_overwrite,
                                     result |-> result,
                                     uploaded |-> uploaded,
                                     before |-> s3_object,
                                     after |-> after])
    /\ s3_object' = after
    /\ ppc' = "idle"
    /\ UNCHANGED <<push_path, push_overwrite>>

\* _s3.py:17-26: the call, the client is created
PushCall ==
    /\ ppc = "idle" /\ Len(push_log) < MaxPushes
    /\ push_path' \in VideoPaths
    /\ push_overwrite' \in BOOLEAN
    /\ ppc' = "check"
    /\ UNCHANGED <<s3_object, push_log>>

\* _s3.py:29-33 and :6-10: the object exists and is not to be overwritten
PushSkip ==
    /\ ppc = "check"
    /\ SkipUpload(push_overwrite, s3_object # None)
    /\ PushOver("False", FALSE, s3_object)

\* _s3.py:29 and :11-13: overwrite is set, or head_object answers 404
PushGoOn ==
    /\ ppc = "check"
    /\ ~SkipUpload(push_overwrite, s3_object # None)
    /\ ppc' = "local"
    /\ UNCHANGED <<push_path, push_overwrite, s3_object, push_log>>

\* _s3.py:20-29, :14 and :44-57: creating the client fails, or head_object
\* fails with an error other than 404; the exception is re-raised
PushCheckRaises ==
    /\ ppc = "check"
    /\ PushOver("raised", FALSE, s3_object)

\* _s3.py:36-37 and :55-57: the local file is not there
PushLocalMissing ==
    /\ ppc = "local" /\ push_path \notin LocalFiles
    /\ PushOver("raised", FALSE, s3_object)

\* _s3.py:36-42: the file is uploaded
PushUpload ==
    /\ ppc = "local" /\ push_path \in LocalFiles
    /\ PushOver("True", TRUE, Some(push_path))

\* _s3.py:40 and :44-54: upload_file raises, nothing is stored
PushUploadRaises ==
    /\ ppc = "local" /\ push_path \in LocalFiles
    /\ PushOver("raised", FALSE, s3_object)

PushOnly == UNCHANGED <<segVars, repVars, pipeVars, frameVars, orchVars, sepVars, sceneVars, promptVars>>

PushNext ==
    \/ PushCall /\ PushOnly
    \/ PushSkip /\ PushOnly
    \/ PushGoOn /\ PushOnly
    \/ PushCheckRaises /\ PushOnly
    \/ PushLocalMissing /\ PushOnly
    \/ PushUpload /\ PushOnly
    \/ PushUploadRaises /\ PushOnly

InitPush == SegIdle /\ RepIdle /\ PipeIdle /\ FrameIdle /\ OrchIdle /\ SepIdle /\ PushInit /\ SceneIdle /\ PromptIdle

SpecPush == InitPush /\ [][PushNext]_vars

(***************************************************************************)
(* Shot segmentation: src/vidcrawl/core/_scenes.py.  poll_results asks the *)
(* detection job for its result every two seconds until it SUCCEEDED or    *)
(* FAILED; get_scene_detection_results turns the segments of the result    *)
(* into VideoCuts.                                                         *)
(***************************************************************************)

MaxSceneDuration == 5
MaxScenePolls == 2
SceneFrameRate == 2
MillisPerSecond == 1000

SceneDurations == 1..MaxSceneDuration

\* the shot boundaries a detector can find in a video of d seconds
Boundaries(d) == SUBSET (1..(d - 1))

\* a set of numbers in ascending order
RECURSIVE Ascending(_)
Ascending(S) ==
    IF S = {} THEN <<>>
    ELSE LET m == CHOOSE x \in S : \A y \in S : x <= y
         IN  <<m>> \o Ascending(S \ {m})

\* one SHOT segment of the job's answer
ShotSegment(index, from, to) ==
    [Index |-> index,
     StartTimestampMillis |-> from * MillisPerSecond,
     EndTimestampMillis |-> to * MillisPerSecond,
     StartFrameNumber |-> from * SceneFrameRate,
     EndFrameNumber |-> to * SceneFrameRate - 1]

\* the segments of a video of d seconds cut at the boundaries B
Shots(d, B) ==
    LET marks == <<0>> \o Ascending(B) \o <<d>>
    IN  [k \in 1..(Len(marks) - 1) |-> ShotSegment(k - 1, marks[k], marks[k + 1])]

\* what res["Segments"] can hold: the shots between the boundaries, or no
\* segment at all
SegmentLists(d) == { Shots(d, B) : B \in Boundaries(d) } \cup { <<>> }

\* lines 67-78: one VideoCut per segment, times in seconds (millis / 1000.0)
Cuts(segments, d) ==
    [k \in 1..Len(segments) |->
        [cut_id |-> "cut_" \o ToString(segments[k].Index),
         start |-> [num |-> segments[k].StartTimestampMillis, den |-> MillisPerSecond],
         end |-> [num |-> segments[k].EndTimestampMillis, den |-> MillisPerSecond],
         start_frame |-> segments[k].StartFrameNumber,
         end_frame |-> segments[k].EndFrameNumber,
         source_video |-> "videos/demo.mp4",
         local_source_video |-> "demo.mp4"]]

SceneInit == SceneIdle

\* get_scene_detection_results(job_id) is called for a job on some video
SceneCall ==
    /\ scpc = "idle"
    /\ \E d \in SceneDurations : scene_duration' = d
    /\ scpc' = "polling"
    /\ UNCHANGED <<scene_polls, scene_segments, video_cuts, scene_exc>>

\* lines 41-47: neither SUCCEEDED nor FAILED, sleep and ask again
ScenePollPending ==
    /\ scpc = "polling" /\ scene_polls < MaxScenePolls
    /\ scene_polls' = scene_polls + 1
    /\ UNCHANGED <<scpc, scene_duration, scene_segments, video_cuts, scene_exc>>

\* lines 43-44 and 63-79: SUCCEEDED, the segments become the cuts
ScenePollSucceeded ==
    /\ scpc = "polling"
    /\ \E segments \in SegmentLists(scene_duration) :
          /\ scene_segments' = Some(segments)
          /\ video_cuts' = Some(Cuts(segments, scene_duration))
    /\ scpc' = "done"
    /\ UNCHANGED <<scene_duration, scene_polls, scene_exc>>

\* lines 45-46: FAILED, the failure reason is raised
ScenePollFailed ==
    /\ scpc = "polling"
    /\ scene_exc' = Some("Exception")
    /\ scpc' = "raised"
    /\ UNCHANGED <<scene_duration, scene_polls, scene_segments, video_cuts>>

\* line 41: get_segment_detection itself raises
ScenePollRaises ==
    /\ scpc = "polling"
    /\ scene_exc' = Some("ClientError")
    /\ scpc' = "raised"
    /\ UNCHANGED <<scene_duration, scene_polls, scene_segments, video_cuts>>

SceneOnly == UNCHANGED <<segVars, repVars, pipeVars, frameVars, orchVars, sepVars, pushVars, promptVars>>

SceneNext ==
    \/ SceneCall /\ SceneOnly
    \/ ScenePollPending /\ SceneOnly
    \/ ScenePollSucceeded /\ SceneOnly
    \/ ScenePollFailed /\ SceneOnly
    \/ ScenePollRaises /\ SceneOnly

InitScene == SegIdle /\ RepIdle /\ PipeIdle /\ FrameIdle /\ OrchIdle /\ SepIdle /\ PushIdle /\ SceneInit /\ PromptIdle

SpecScene == InitScene /\ [][SceneNext]_vars

(***************************************************************************)
(* create_images_prompt (core/_llm.py:18-115): the message for the vision  *)
(* model, a head text, then for each frame sent a text block with its      *)
(* timestamp and an image block with its S3 location, then a closing text. *)
(* Frame times are in tenths of a second here; clips are the objects the   *)
(* function reads: keyframes, timestamps, start, end.                      *)
(***************************************************************************)
MaxClips == 2
MaxClipFrames == 2
MaxPromptFrames == 3
\* length in seconds of a clip without stored timestamps: the fallback
\* times start + idx * (duration / n) are whole tenths for n up to 6
ClipLength == 6
TenthsPerSecond == 10

ClipIds == <<"a", "b", "c">>

\* the clip at position k of the list, with n keyframes and, if stored,
\* one timestamp per keyframe; clip k starts at minute k - 1
Clip(k, n, stored) ==
    [ keyframes |-> [i \in 1..n |-> "keyframes/" \o ClipIds[k] \o "_"
                                      \o ToString(i - 1) \o ".jpg"],
      timestamps |-> IF stored
                     THEN [i \in 1..n |-> (k - 1) * 60 * TenthsPerSecond + (i - 1) * 15]
                     ELSE <<>>,
      start |-> (k - 1) * 60,
      end |-> (k - 1) * 60 + ClipLength ]

ClipLists ==
    UNION { { [k \in 1..len |-> Clip(k, shape[k][1], shape[k][2])] :
                shape \in [1..len -> (0..MaxClipFrames) \X BOOLEAN] } :
            len \in 0..MaxClips }

HeadText == "You are a professional sports video analyst. [...] Here are the frames with their timestamps:"
ClosingText == "\n\nNow provide a chronological analysis of the video with timestamped events. [...]"

\* _llm.py:43-45
FramesPerClip(clips, max) == IF Len(clips) > 0 THEN max \div Len(clips) ELSE max

\* _llm.py:54-65: the times of the frames of a clip, n of them selected
FrameTimes(clip, per_clip, n) ==
    IF clip.timestamps # <<>> /\ Len(clip.timestamps) = Len(clip.keyframes)
    THEN Take(clip.timestamps, per_clip)
    ELSE LET clip_duration == (clip.end - clip.start) * TenthsPerSecond
             time_per_frame == IF n > 1 THEN clip_duration \div n ELSE 0
         IN  [i \in 1..n |-> clip.start * TenthsPerSecond + (i - 1) * time_per_frame]

\* _llm.py:74-81: f"\n[Frame at {minutes:02d}:{seconds:02d} ({frame_time:.1f}s)]"
FrameText(frame_time) ==
    LET whole == frame_time \div TenthsPerSecond
    IN  "\n[Frame at " \o Pad2(whole \div 60) \o ":" \o Pad2(whole % 60) \o " ("
          \o ToString(whole) \o "." \o ToString(frame_time % TenthsPerSecond) \o "s)]"

TextBlock(text) == [text |-> text]

\* _llm.py:83-91
ImageBlock(frame_key) ==
    [image |-> [format |-> "jpeg",
                source |-> [s3Location |-> [uri |-> "s3://aws-hack-bucket/" \o frame_key]]]]

\* _llm.py:67-96: the inner loop over zip(selected_frames, frame_times),
\* left when total_frames reaches max_frames
RECURSIVE FrameLoop(_, _, _, _)
FrameLoop(st, keys, times, max) ==
    IF keys = <<>> \/ times = <<>> THEN st
    ELSE LET st1 == [content |-> st.content \o <<TextBlock(FrameText(times[1])),
                                                 ImageBlock(keys[1])>>,
                     total |-> st.total + 1,
                     stamps |-> Append(st.stamps, times[1])]
         IN  IF st1.total >= max THEN st1
             ELSE FrameLoop(st1, Tail(keys), Tail(times), max)

PromptInit ==
    /\ lpc = "entry"
    /\ prompt_clips \in ClipLists
    /\ max_frames \in 0..MaxPromptFrames
    /\ content = <<>> /\ sent_frames = 0 /\ frame_timestamps = <<>>
    /\ clip_index = 0 /\ prompt_exc = None

\* _llm.py:27-49
PromptHead ==
    /\ lpc = "entry"
    /\ content' = <<TextBlock(HeadText)>>
    /\ lpc' = "clips"
    /\ UNCHANGED <<prompt_clips, max_frames, sent_frames, frame_timestamps,
                   clip_index, prompt_exc>>

\* _llm.py:51-99: one turn of "for clip in video_clips"
PromptClip ==
    /\ lpc = "clips" /\ clip_index < Len(prompt_clips)
    /\ LET clip == prompt_clips[clip_index + 1]
           per_clip == FramesPerClip(prompt_clips, max_frames)
           selected_frames == Take(clip.keyframes, per_clip)
           frame_times == FrameTimes(clip, per_clip, Len(selected_frames))
           st == FrameLoop([content |-> content, total |-> sent_frames,
                            stamps |-> frame_timestamps],
                           selected_frames, frame_times, max_frames)
       IN  /\ content' = st.content
           /\ sent_frames' = st.total
           /\ frame_timestamps' = st.stamps
           /\ lpc' = IF st.total >= max_frames THEN "closing" ELSE "clips"
    /\ clip_index' = clip_index + 1
    /\ UNCHANGED <<prompt_clips, max_frames, prompt_exc>>

\* the clips are exhausted
PromptClipsOver ==
    /\ lpc = "clips" /\ clip_index = Len(prompt_clips)
    /\ lpc' = "closing"
    /\ UNCHANGED <<prompt_clips, max_frames, content, sent_frames,
                   frame_timestamps, clip_index, prompt_exc>>

\* _llm.py:102-115: the closing text, the two prints, return
PromptReturn ==
    /\ lpc = "closing" /\ frame_timestamps # <<>>
    /\ content' = Append(content, TextBlock(ClosingText))
    /\ lpc' = "returned"
    /\ UNCHANGED <<prompt_clips, max_frames, sent_frames, frame_timestamps,
                   clip_index, prompt_exc>>

\* _llm.py:114 with no frame sent: frame_timestamps[0] raises IndexError
PromptPrintRaises ==
    /\ lpc = "closing" /\ frame_timestamps = <<>>
    /\ content' = Append(content, TextBlock(ClosingText))
    /\ prompt_exc' = Some("IndexError")
    /\ lpc' = "raised"
    /\ UNCHANGED <<prompt_clips, max_frames, sent_frames, frame_timestamps,
                   clip_index>>

PromptOnly == UNCHANGED <<segVars, repVars, pipeVars, frameVars, orchVars, sepVars, pushVars, sceneVars>>

PromptNext ==
    \/ PromptHead /\ PromptOnly
    \/ PromptClip /\ PromptOnly
    \/ PromptClipsOver /\ PromptOnly
    \/ PromptReturn /\ PromptOnly
    \/ PromptPrintRaises /\ PromptOnly

InitPrompt == SegIdle /\ RepIdle /\ PipeIdle /\ FrameIdle /\ OrchIdle /\ SepIdle /\ PushIdle /\ SceneIdle /\ PromptInit

SpecPrompt == InitPrompt /\ [][PromptNext]_vars

(***************************************************************************)
(* Properties of the segmentation.                                         *)
(***************************************************************************)
ContentsOf(its) == [i \in 1..Len(its) |-> its[i].content]

RECURSIVE WordsOf(_)
WordsOf(its) ==
    IF its = <<>> THEN <<>>
    ELSE LET rest == WordsOf(SubSeq(its, 1, Len(its) - 1))
             last == its[Len(its)]
         IN  IF IsWord(last) THEN Append(rest, last) ELSE rest

CeilDiv(n, d) == (n + d - 1) \div d

\* C1: a stream of N words and no punctuation gives ceil(N/10) segments; the
\* k-th holds words 10(k-1)+1 .. min(10k, N), so all but the last hold
\* exactly 10 words and the last the rest (25 words: 10, 10, 5); while the
\* loop runs every emitted segment holds exactly 10 words and fewer than 10
\* words are buffered, so no segment ever holds more than 10.
C1_TenWordSegments ==
    NumPunct = 0 =>
        LET N == Len(items)
            words == ContentsOf(items)
            Chunk(k) == SubSeq(words, SegWords * (k - 1) + 1, Min(SegWords * k, N))
        IN  /\ \A k \in 1..Len(transcripts) :
                 /\ transcripts[k].text = Join(Chunk(k))
                 /\ Len(Chunk(k)) \in 1..SegWords
                 /\ k < Len(transcripts) => Len(Chunk(k)) = SegWords
            /\ tpc = "loop" =>
                 /\ Len(transcripts) = N \div SegWords
                 /\ Len(current_text) = N % SegWords
            /\ tpc = "cleanup" => Len(transcripts) = CeilDiv(N, SegWords)

C1_Witness ==
    /\ tpc = "cleanup" /\ NumPunct = 0 /\ Len(items) = 25
    /\ Len(transcripts) = 3
    /\ transcripts[3].text = "again Hello world again Hello"

\* a step of the loop that reads a terminal mark while words are buffered
TerminalMarkStep ==
    /\ tpc = "loop" /\ tpc' = "loop" /\ Len(items') = Len(items) + 1
    /\ ~IsWord(items'[Len(items')])
    /\ items'[Len(items')].content \in {".", "!", "?"}
    /\ current_text # <<>>

\* C2: a '.', '!' or '?' arriving while words are buffered is appended, with
\* no space, to the last buffered word and closes the segment at once with
\* confidence 1.0; the stream [Hello, world, '.'] gives exactly one segment,
\* "Hello world." with confidence 1.0.
C2_TerminalPunctuation ==
    /\ [][ TerminalMarkStep =>
             /\ Len(transcripts') = Len(transcripts) + 1
             /\ SubSeq(transcripts', 1, Len(transcripts)) = transcripts
             /\ transcripts'[Len(transcripts')].text
                  = Join(current_text) \o items'[Len(items')].content
             /\ transcripts'[Len(transcripts')].confidence = FullConfidence
             /\ current_text' = <<>> ]_vars
    /\ [] ( (tpc = "cleanup" /\ ContentsOf(items) = <<"Hello", "world", ".">>)
              => /\ Len(transcripts) = 1
                 /\ transcripts[1].text = "Hello world."
                 /\ transcripts[1].confidence = FullConfidence )

C2_Witness ==
    /\ tpc = "cleanup" /\ ContentsOf(items) = <<"Hello", "world", ".">>
    /\ IsWord(items[1]) /\ IsWord(items[2]) /\ ~IsWord(items[3])
    /\ Len(transcripts) = 1 /\ transcripts[1].text = "Hello world."

\* each word has start <= end and starts no earlier than the word before ends
TimeOrdered(its) ==
    LET w == WordsOf(its)
    IN  /\ \A i \in 1..Len(w) : w[i].start_time <= w[i].end_time
        /\ \A i \in 1..(Len(w) - 1) : w[i].end_time <= w[i + 1].start_time

\* C7: for a time-ordered stream every utterance has start <= end and each
\* utterance ends no later than the next one starts, whatever closed them.
C7_UtterancesOrdered ==
    TimeOrdered(items) =>
        /\ \A k \in 1..Len(transcripts) : transcripts[k].start <= transcripts[k].end
        /\ \A k \in 1..(Len(transcripts) - 1) :
             transcripts[k].end <= transcripts[k + 1].start

\* the stream "w . w*10": one utterance closed by a mark, one by the word count
C7_Witness ==
    /\ tpc = "cleanup" /\ TimeOrdered(items) /\ profile[1].stride > 0
    /\ Len(items) = 12 /\ NumPunct = 1 /\ items[2].content = "."
    /\ Len(transcripts) = 2
    /\ transcripts[1].confidence = FullConfidence
    /\ transcripts[2].confidence = Cyc(Confidences, 11)
    /\ transcripts[1].end < transcripts[2].start
    /\ transcripts[2].start < transcripts[2].end

\* a step of the loop, or the flush after it, that emits an utterance
Emits == tpc = "loop" /\ Len(transcripts') > Len(transcripts)

\* the step read a word
ReadsWord == Len(items') = Len(items) + 1 /\ IsWord(items'[Len(items')])

\* C17: an utterance closed by the 10-word trigger carries the confidence of
\* the word that closed it, its tenth; an utterance closed by a terminal mark
\* and the utterance flushed when the stream ends carry confidence 1.0; with
\* word confidences in [0, 1] every emitted confidence is in [0, 1].
C17_ClosingConfidence ==
    /\ [][ Emits =>
             LET new == transcripts'[Len(transcripts')]
             IN  /\ Len(transcripts') = Len(transcripts) + 1
                 /\ IF ReadsWord
                    THEN /\ Len(current_text) = SegWords - 1
                         /\ new.confidence = items'[Len(items')].confidence
                    ELSE new.confidence = FullConfidence ]_vars
    /\ [] ( (\A i \in 1..Len(items) : items[i].confidence \in 0..FullConfidence)
              => \A k \in 1..Len(transcripts) :
                    transcripts[k].confidence \in 0..FullConfidence )

\* eleven words: the first utterance was closed by its tenth word and has
\* that word's confidence 0.50, the second is the flushed eleventh word,
\* whose own confidence is 0, with confidence 1.0
C17_Witness ==
    /\ tpc = "cleanup" /\ Len(items) = 11 /\ NumPunct = 0
    /\ items[10].confidence = 50 /\ items[11].confidence = 0
    /\ Len(transcripts) = 2
    /\ transcripts[1].confidence = 50
    /\ transcripts[2].text = "world" /\ transcripts[2].confidence = FullConfidence

\* the step read a punctuation mark
ReadsPunctuation == Len(items') = Len(items) + 1 /\ ~IsWord(items'[Len(items')])

\* C18: an utterance starts at the clip's start plus the start_time of the
\* first word that contributes to it and ends at the clip's start plus the
\* end_time of the last; a punctuation token changes neither time.
C18_WordTimesOffsetByClip ==
    /\ [][ Emits =>
             LET new == transcripts'[Len(transcripts')]
                 words == WordsOf(items')
                 n == Len(current_text) + (IF ReadsWord THEN 1 ELSE 0)
                 first == words[Len(words) - n + 1]
                 last == words[Len(words)]
             IN  /\ n \in 1..Len(words)
                 /\ new.start = audio_clip.start + first.start_time
                 /\ new.end = audio_clip.start + last.end_time ]_vars
    /\ [][ (tpc = "loop" /\ ReadsPunctuation) =>
             /\ current_end' = current_end
             /\ current_start' \in {current_start, None}
             /\ current_start' = None => (current_text' = <<>> /\ current_text # <<>>)
                                           \/ current_start = None ]_vars

\* a clip starting at 7 s, words of 2 s every 3 s: "Hello, world." runs from
\* 7 + 0 to 7 + 5, the flushed "again" from 7 + 6 to 7 + 8
C18_Witness ==
    /\ tpc = "cleanup" /\ audio_clip.start = 7
    /\ profile = Some([stride |-> 3, dur |-> 2])
    /\ ContentsOf(items) = <<"Hello", ",", "world", ".", "again">>
    /\ Len(transcripts) = 2
    /\ transcripts[1].text = "Hello, world."
    /\ transcripts[1].start = 7 /\ transcripts[1].end = 12
    /\ transcripts[2].text = "again"
    /\ transcripts[2].start = 13 /\ transcripts[2].end = 15

\* the pieces of a text between its spaces
RECURSIVE Split(_)
Split(text) ==
    IF text = "" THEN <<>>
    ELSE LET n == Len(text)
             i == CHOOSE p \in 1..(n + 1) :
                     /\ p = n + 1 \/ SubSeq(text, p, p) = " "
                     /\ \A q \in 1..(p - 1) : SubSeq(text, q, q) # " "
         IN  <<SubSeq(text, 1, i - 1)>>
               \o (IF i >= n THEN <<>> ELSE Split(SubSeq(text, i + 1, n)))

\* a piece without the punctuation marks appended to it
RECURSIVE StripMarks(_)
StripMarks(piece) ==
    LET n == Len(piece)
    IN  IF n > 0 /\ SubSeq(piece, n, n) \in PunctuationMarks
        THEN StripMarks(SubSeq(piece, 1, n - 1))
        ELSE piece

\* the words read off a text
WordsRead(text) ==
    LET pieces == Split(text) IN [i \in 1..Len(pieces) |-> StripMarks(pieces[i])]

\* the words read off the utterances, in emission order
RECURSIVE EmittedWords(_)
EmittedWords(out) ==
    IF out = <<>> THEN <<>>
    ELSE EmittedWords(SubSeq(out, 1, Len(out) - 1)) \o WordsRead(out[Len(out)].text)

\* C23: the words read off the emitted utterances in emission order,
\* followed by the words still buffered, are exactly the word tokens read
\* so far in input order; once the stream is exhausted nothing is buffered,
\* so every word is in exactly one utterance, and no utterance is without
\* words.
C23_WordsConserved ==
    tpc \in {"loop", "cleanup"} =>
        /\ EmittedWords(transcripts)
             \o [i \in 1..Len(current_text) |-> StripMarks(current_text[i])]
           = ContentsOf(WordsOf(items))
        /\ \A k \in 1..Len(transcripts) : Len(WordsRead(transcripts[k].text)) >= 1
        /\ tpc = "cleanup" =>
              /\ current_text = <<>>
              /\ EmittedWords(transcripts) = ContentsOf(WordsOf(items))

\* "Hello world!" closed by the mark, "again?" likewise: three words in,
\* three words out
C23_Witness ==
    /\ tpc = "cleanup"
    /\ ContentsOf(items) = <<"Hello", "world", "!", "again", "?">>
    /\ Len(transcripts) = 2
    /\ transcripts[1].text = "Hello world!" /\ transcripts[2].text = "again?"
    /\ EmittedWords(transcripts) = <<"Hello", "world", "again">>

\* ten words and then a full stop
TenWordsAndStop ==
    /\ Len(items) = SegWords + 1 /\ NumWords = SegWords
    /\ items[SegWords + 1].content = "."

\* C24: a punctuation token read while the buffer is empty is discarded: no
\* utterance is emitted, the utterances emitted before stay as they are and
\* the buffer stays empty; so ten words followed by '.' give one utterance,
\* without the full stop and with the tenth word's confidence.
C24_MarkOnEmptyBufferDiscarded ==
    /\ [][ (tpc = "loop" /\ ReadsPunctuation /\ current_text = <<>>) =>
              /\ transcripts' = transcripts
              /\ current_text' = <<>>
              /\ current_start' = current_start /\ current_end' = current_end
              /\ tpc' = "loop" ]_vars
    /\ [] ( (tpc = "cleanup" /\ TenWordsAndStop) =>
              /\ Len(transcripts) = 1
              /\ transcripts[1].text = Join(ContentsOf(SubSeq(items, 1, SegWords)))
              /\ transcripts[1].confidence = items[SegWords].confidence )

\* ten words, then '.': the one utterance ends with its tenth word "Hello"
\* and has that word's confidence 0.50
C24_Witness ==
    /\ tpc = "cleanup" /\ TenWordsAndStop
    /\ Len(transcripts) = 1
    /\ transcripts[1].text
         = "Hello world again Hello world again Hello world again Hello"
    /\ transcripts[1].confidence = 50
    /\ current_text = <<>>

(***************************************************************************)
(* Properties of the speech job's life cycle.                              *)
(***************************************************************************)
\* how far transcribe_audio_s3 has got
Rank(pc) ==
    CASE pc = "entry" -> 0
      [] pc = "poll" -> 1
      [] pc = "fetch" -> 2
      [] pc = "loop" -> 3
      [] pc \in {"cleanup", "except"} -> 4
      [] pc = "returned" -> 5

Terminal(status) == status \in {"COMPLETED", "FAILED"}

\* the function never goes back: no second submission, no second fetch,
\* and a pending status keeps it in the poll loop
NeverBack ==
    [][ /\ Rank(tpc') >= Rank(tpc)
        /\ tpc = "entry" => tpc' # "entry"
        /\ tpc = "fetch" => tpc' # "fetch"
        /\ (tpc = "poll" /\ tpc' = "poll") =>
              (polls' = polls + 1 /\ ~Terminal(job_status')) ]_vars

\* the token stream is fetched only once COMPLETED has been read
FetchAfterCompleted ==
    /\ [] (tpc = "fetch" => job_status = "COMPLETED")
    /\ [] ((items # <<>> \/ transcripts # <<>>) => job_status = "COMPLETED")
    /\ [][ tpc' = "fetch" => (tpc = "poll" /\ polls' = polls + 1) ]_vars

\* once FAILED has been read nothing but the clean-up follows
FailedIsFinal ==
    /\ [] (job_status = "FAILED" =>
              /\ tpc \in {"except", "returned"}
              /\ items = <<>> /\ transcripts = <<>>
              /\ returned # None => returned = Some(<<>>))
    /\ [][ job_status = "FAILED" =>
              (polls' = polls /\ job_status' = "FAILED") ]_vars

\* C20: the poll loop is left only when COMPLETED or FAILED is read; the
\* token stream is fetched only after COMPLETED and at most once; after
\* FAILED there is no further poll, no resubmission and no utterance.
C20_PollUntilTerminal ==
    /\ [][ (tpc = "poll" /\ tpc' # "poll") => Terminal(job_status') ]_vars
    /\ NeverBack
    /\ FetchAfterCompleted
    /\ FailedIsFinal

\* C20 as amended: the poll loop is left only when COMPLETED or FAILED is
\* read or when the status request itself raises; the token stream is
\* fetched only after COMPLETED and at most once; after FAILED, and after a
\* status request that raised, there is no further poll, no resubmission
\* and no utterance.
C20_PollUntilTerminalOrError ==
    /\ [][ (tpc = "poll" /\ tpc' # "poll") =>
              \/ (job_status' = "COMPLETED" /\ tpc' = "fetch" /\ error' = error)
              \/ (job_status' = "FAILED" /\ tpc' = "except")
              \/ (error' = Some("get_transcription_job") /\ tpc' = "except"
                    /\ job_status' = job_status) ]_vars
    /\ NeverBack
    /\ FetchAfterCompleted
    /\ FailedIsFinal
    /\ [] (error = Some("get_transcription_job") =>
              /\ tpc \in {"except", "returned"}
              /\ items = <<>> /\ transcripts = <<>>
              /\ returned # None => returned = Some(<<>>))
    /\ [][ error = Some("get_transcription_job") => polls' = polls ]_vars

\* the job was read as pending once, then as FAILED: the function has
\* deleted the job and returned no utterance after two polls
C20_Witness ==
    /\ tpc = "returned" /\ job_status = "FAILED" /\ polls = 2
    /\ error = Some("Transcription failed")
    /\ deletes = 1 /\ returned = Some(<<>>)

\* C21: the status poll never goes on for ever: when the job reaches no
\* terminal state the function leaves the poll loop all the same (after a
\* bounded wait, failing with JobTimeoutError).
C21_PollingStops == (tpc = "poll") ~> (tpc # "poll")

\* the function was called with an audio reference: it attempts the job start
ReachesJobStart == audio_clip.audio_data # <<>>

\* C25: a call that reaches the job start attempts the deletion of the job
\* exactly once, as its last step before returning, on the success path
\* and on every failure path; whether the deletion fails or not, the
\* success path returns the utterances and a failure path the empty list;
\* without an audio reference the function returns the empty list and no
\* job is started, polled or deleted.
C25_DeleteExactlyOnce ==
    /\ [] ( ReachesJobStart =>
              /\ tpc = "returned" => deletes = 1
              /\ tpc # "returned" => (deletes = 0 /\ returned = None) )
    /\ [][ tpc = "cleanup" =>
              /\ deletes' = deletes + 1
              /\ tpc' = "returned" /\ returned' = Some(transcripts) ]_vars
    /\ [][ tpc = "except" =>
              /\ deletes' = deletes + 1
              /\ tpc' = "returned" /\ returned' = Some(<<>>) ]_vars
    /\ [] ( ~ReachesJobStart =>
              /\ tpc \in {"entry", "returned"}
              /\ polls = 0 /\ job_status = "" /\ deletes = 0
              /\ delete_error = None /\ error = None
              /\ tpc = "returned" => returned = Some(<<>>) )

\* the job completed and two utterances were parsed; the deletion failed,
\* and the two utterances are returned all the same
C25_Witness ==
    /\ tpc = "returned" /\ ReachesJobStart /\ job_status = "COMPLETED"
    /\ error = None /\ deletes = 1 /\ delete_error = Some("ClientError")
    /\ Len(returned[1]) = 2

(***************************************************************************)
(* Properties of create_unified_report and merge_timeline.                 *)
(***************************************************************************)
\* create_unified_report returned what merge_timeline built
FellBack == rpc = "returned" /\ markdown # <<>>

\* C3: whatever fails in the synthesis step, obtaining the client included,
\* create_unified_report raises nothing and a text that is not the model's
\* answer is the text of merge_timeline for the same arguments.
C3_AnyFailureFallsBack ==
    /\ rpc # "raised"
    /\ (rpc = "returned" /\ report[1] \notin SynthesisTexts) =>
          report = Some(Concat(merge_timeline(visual_analysis, report_transcripts,
                                              video_end)))

C6_EmptyListMarker ==
    FellBack =>
        /\ (\E k \in 1..Len(markdown) : markdown[k] = NoTranscriptionMarker)
              <=> report_transcripts = <<>>
        /\ report_transcripts = <<>> =>
              /\ Len(markdown) = 9
              /\ markdown[3] = "**Total Transcript Segments:** 0\n"
              /\ markdown[5] = "## Visual Analysis\n"
              /\ markdown[6] = visual_analysis
              /\ markdown[8] = "## Audio Transcription\n"
              /\ markdown[9] = "*No transcription available*\n"

C6_Witness ==
    /\ FellBack /\ report_transcripts = <<>> /\ visual_analysis = "Goal at 00:12"
    /\ markdown[9] = NoTranscriptionMarker
    /\ report[1] # ""

(***************************************************************************)
(* Properties of the whole-video run.                                      *)
(***************************************************************************)
RunOver == hpc \in {"done", "error"}
ExtractionFailed == exc = Some("separator")
TranscriptionFailed == error # None
TranscriptionSucceeded == tpc = "returned" /\ error = None
VisualSucceeded == vis = "ok"

\* C8: the two analysis tasks are dispatched only after separator has
\* returned, neither waits for the other (an audio task that is submitted
\* while the visual task runs can start), and analyze_video_parallel
\* returns only after both tasks have finished.
C8_IndependentTasks ==
    /\ (vis # "none" \/ aud # "none") => video_clip # None
    /\ (aud = "queued" /\ vis = "running") => ENABLED StartAudio
    /\ hpc \in {"report", "done"} => (vis \in {"ok", "failed"} /\ aud = "done")

\* C9: a failure of extraction or of transcription is fatal: the run does
\* not go on to the report and ends with an error.
C9_FailuresFatal ==
    (ExtractionFailed \/ TranscriptionFailed) =>
        /\ hpc \notin {"report", "done"}
        /\ video_report = None

\* C9 as amended: a failure of extraction is fatal (no task is dispatched,
\* no report is stored, the run ends with the error); a failure during
\* transcription is not: transcribe_audio_s3 returns an empty list, the run
\* goes on to the report with no utterances, and when it ends with an error
\* the error is that of analyse_images or of create_unified_report.
C9_ExtractionFatalTranscriptionNot ==
    /\ ExtractionFailed =>
          /\ vis = "none" /\ aud = "none"
          /\ hpc \in {"shutdown", "error"}
          /\ video_report = None /\ ~is_analyzed
    /\ TranscriptionFailed =>
          /\ tpc = "returned" => returned = Some(<<>>)
          /\ hpc \in {"report", "done"} => report_transcripts = <<>>
          /\ hpc = "done" => (video_report # None /\ is_analyzed)
          /\ exc # None => exc \in {Some("analyse_images"), Some("create_unified_report")}

\* the job reports FAILED, the visual analysis succeeds, the report is stored
C9_Witness ==
    /\ hpc = "done" /\ job_status = "FAILED" /\ TranscriptionFailed
    /\ VisualSucceeded /\ video_report # None /\ is_analyzed

\* C10: a run in which the visual analysis or the transcription succeeded
\* ends with a report, not with an error.
C10_ReportIfAnySucceeded ==
    (RunOver /\ (VisualSucceeded \/ TranscriptionSucceeded)) =>
        (hpc = "done" /\ video_report # None)

(***************************************************************************)
(* Properties of the frame selection.                                      *)
(***************************************************************************)
StrictlyIncreasing(data) ==
    \A i \in 1..(Len(data) - 1) : TsLess(data[i][2], data[i + 1][2])

\* C4: for every budget K and every number S of scored frames the function
\* returns exactly min(K, S) pairs, strictly increasing by timestamp (so no
\* two with the same timestamp).
C4_ExactlyMinFrames ==
    fpc = "returned" =>
        /\ Len(keyframe_data) = Min(num_frames, Len(frame_scores))
        /\ StrictlyIncreasing(keyframe_data)

\* C4 as amended: min(K, S) frames are selected and one pair is returned
\* for each selected frame that could be read again when it was saved, so
\* min(K, S) less the unreadable ones, and exactly min(K, S) when there is
\* none; the pairs are strictly increasing by timestamp and each carries
\* the timestamp of a selected frame.
C4_MinFramesLessUnreadable ==
    fpc = "returned" =>
        /\ Len(selected) = Min(num_frames, Len(frame_scores))
        /\ Len(keyframe_data) = Len(selected) - unreadable
        /\ unreadable = 0 => Len(keyframe_data) = Min(num_frames, Len(frame_scores))
        /\ StrictlyIncreasing(keyframe_data)
        /\ \A i \in 1..Len(keyframe_data) :
              \E j \in 1..Len(selected) :
                  /\ keyframe_data[i][2] = selected[j].timestamp
                  /\ keyframe_data[i][1] = OutputPath(j - 1)

\* budget 3 over 4 scored frames, the second selected frame unreadable
C4_Witness ==
    /\ fpc = "returned" /\ num_frames = 3 /\ Len(frame_scores) = 4
    /\ unreadable = 1 /\ Len(keyframe_data) = 2
    /\ keyframe_data[1][1] = "frame_0000.jpg"
    /\ keyframe_data[2][1] = "frame_0002.jpg"

\* the position in selected of the frame a returned pair was saved from
SelectedIndex(pair) ==
    CHOOSE j \in 1..Len(selected) : pair = <<OutputPath(j - 1), selected[j].timestamp>>

\* C12: whatever the order in which the extract-and-save tasks completed,
\* the returned list is strictly increasing by timestamp: it holds the saved
\* frames in the order of their positions in the selection, one pair per
\* task that saved its frame.
C12_OrderedForEveryCompletionOrder ==
    fpc = "returned" =>
        /\ Len(completed) = Len(selected)
        /\ Len(keyframe_data) + unreadable = Len(completed)
        /\ StrictlyIncreasing(keyframe_data)
        /\ \A a, b \in 1..Len(keyframe_data) :
              a < b => SelectedIndex(keyframe_data[a]) < SelectedIndex(keyframe_data[b])

\* three frames saved, the task of the last one completing first
C12_Witness ==
    /\ fpc = "returned" /\ completed = <<3, 1, 2>> /\ unreadable = 0
    /\ Len(keyframe_data) = 3
    /\ keyframe_data[1][1] = "frame_0000.jpg"
    /\ keyframe_data[3][1] = "frame_0002.jpg"


\* frame g is ranked before frame f: a higher score, or the same score and
\* an earlier timestamp
RankedBefore(g, f) ==
    \/ g.score > f.score
    \/ (g.score = f.score /\ TsLess(g.timestamp, f.timestamp))

\* C19: the selection keeps the K sampled frames with the highest scores,
\* the earlier frame winning on equal scores: a sampled frame is kept if
\* and only if fewer than K other sampled frames have a higher score, or
\* the same score and an earlier timestamp; the first sampled frame scores 0.
C19_HighestScoresEarlierOnTies ==
    fpc \in {"save", "returned"} =>
        LET n == Len(frame_scores)
            Kept(i) == \E j \in 1..Len(selected) : selected[j] = frame_scores[i]
            Before(i) == { j \in 1..n : RankedBefore(frame_scores[j], frame_scores[i]) }
        IN  /\ Len(selected) = Min(num_frames, n)
            /\ \A i \in 1..n : Kept(i) <=> Cardinality(Before(i)) < num_frames
            /\ n > 0 => frame_scores[1].score = 0

\* budget 2 over frames scoring 0, 1, 1, 2: the second and the fourth are
\* kept, the third, as good as the second but later, is left out
C19_Witness ==
    /\ fpc = "save" /\ num_frames = 2 /\ Len(frame_scores) = 4
    /\ [i \in 1..4 |-> frame_scores[i].score] = <<0, 1, 1, 2>>
    /\ Len(selected) = 2
    /\ selected[1] = frame_scores[2] /\ selected[2] = frame_scores[4]

(***************************************************************************)
(* Properties of the Orchestrator over cuts.                               *)
(***************************************************************************)
\* C11: the outcomes handed to the caller are, at every moment, those of
\* the first cuts in submission order, one per cut, whatever the order in
\* which the extractions and analyses completed; once every cut has been
\* reported the order is the submission order.
C11_SubmissionOrder ==
    /\ Len(outcomes) <= Len(cuts)
    /\ \A k \in 1..Len(outcomes) : outcomes[k].cut = cuts[k]

\* cuts A, B, C: the extraction of B completed before that of A, and all
\* three outcomes have been reported
C11_Witness ==
    /\ cuts = <<"A", "B", "C">>
    /\ Len(extracted_order) = 3 /\ extracted_order[1] = 2
    /\ Len(outcomes) = 3
    /\ outcomes[1].cut = "A" /\ outcomes[2].cut = "B" /\ outcomes[3].cut = "C"

(***************************************************************************)
(* Properties of separator.                                                *)
(***************************************************************************)
\* C13: no two upload tasks that write at the same time write to the same
\* key, whether they belong to one call of separator or to two calls that
\* overlap.
C13_DistinctKeys ==
    \A c, d \in Calls : \A t \in Writing(c), u \in Writing(d) :
        (c # d \/ t # u) => UploadKey(c, t) # UploadKey(d, u)

ExtractedAndUploaded(c) ==
    /\ sep_duration[c] # None
    /\ uploads[c] # <<>>
    /\ \A t \in 1..Len(uploads[c]) : uploads[c][t] = "done"

\* C16: a call whose frame extraction, audio extraction and uploads all
\* succeeded returns a pair whose VideoClip has as many keys as timestamps,
\* at most num_frames of them, every timestamp in [0, duration).
C16_WellFormedFrameSet ==
    \A c \in Calls :
        (spc[c] \in {"returned", "raised"} /\ ExtractedAndUploaded(c)) =>
            /\ spc[c] = "returned" /\ sep_result[c] # None
            /\ LET clip == sep_result[c][1].video_clip
                   duration == [num |-> sep_duration[c][1], den |-> 1]
               IN  /\ Len(clip.keyframes) = Len(clip.timestamps)
                   /\ Len(clip.keyframes) <= sep_num_frames[c]
                   /\ \A i \in 1..Len(clip.timestamps) :
                         /\ ~TsLess(clip.timestamps[i], Timestamp(0, 1))
                         /\ TsLess(clip.timestamps[i], duration)

(***************************************************************************)
(* Properties of _push_video_to_s3.                                        *)
(***************************************************************************)
KeepCalls == { k \in 1..Len(push_log) : ~push_log[k].overwrite }

\* C14: with overwrite=False a call for an existing key uploads nothing and
\* returns False, a call for a missing key uploads and returns True; of two
\* successive such calls the second uploads nothing and leaves the object
\* as the first left it.
C14_ExistenceCheckIdempotent ==
    /\ \A k \in KeepCalls :
          LET call == push_log[k]
          IN  /\ call.before # None => (~call.uploaded /\ call.result = "False")
              /\ call.before = None => (call.uploaded /\ call.result = "True")
    /\ \A k \in KeepCalls :
          (k + 1) \in KeepCalls =>
              /\ ~push_log[k + 1].uploaded
              /\ push_log[k + 1].after = push_log[k].after

\* C14 as amended: with overwrite=False a call for an existing key never
\* uploads and returns False unless the check itself raises; a call for a
\* missing key either uploads the local file and returns True or raises and
\* stores nothing; of two successive such calls at most one uploads, and
\* when the first one returned the second uploads nothing and leaves the
\* object as the first left it.
C14_ExistenceCheckSkipsUpload ==
    /\ \A k \in KeepCalls :
          LET call == push_log[k]
          IN  /\ call.before # None =>
                    /\ ~call.uploaded /\ call.after = call.before
                    /\ call.result \in {"False", "raised"}
              /\ call.before = None =>
                    /\ call.result \in {"True", "raised"}
                    /\ call.result = "True" <=> call.uploaded
                    /\ call.uploaded => call.after = Some(call.video_path)
                    /\ ~call.uploaded => call.after = None
    /\ \A k \in KeepCalls :
          (k + 1) \in KeepCalls =>
              /\ ~(push_log[k].uploaded /\ push_log[k + 1].uploaded)
              /\ push_log[k].result # "raised" =>
                    /\ ~push_log[k + 1].uploaded
                    /\ push_log[k + 1].result \in {"False", "raised"}
                    /\ push_log[k + 1].after = push_log[k].after

\* two calls for a key that was missing: a.mp4 is uploaded, b.mp4 is not
C14_Witness ==
    /\ Len(push_log) = 2 /\ KeepCalls = {1, 2}
    /\ push_log[1].before = None /\ push_log[1].video_path = "a.mp4"
    /\ push_log[1].uploaded /\ push_log[1].result = "True"
    /\ push_log[2].video_path = "b.mp4"
    /\ ~push_log[2].uploaded /\ push_log[2].result = "False"
    /\ s3_object = Some("a.mp4")

(***************************************************************************)
(* Properties of the shot segmentation.                                    *)
(***************************************************************************)

\* the detection job succeeded without reporting any segment
NoSegments == scpc = "done" /\ scene_segments = Some(<<>>)

\* C15: when the detector reports no segments the returned cuts are exactly
\* one cut, from 0 to the duration of the video, never an empty sequence.
C15_NoBoundariesOneCut ==
    NoSegments =>
        /\ video_cuts # None
        /\ Len(video_cuts[1]) = 1
        /\ video_cuts[1][1].start.num = 0
        /\ video_cuts[1][1].end.num = scene_duration * video_cuts[1][1].end.den

(***************************************************************************)
(* Properties of create_images_prompt.                                     *)
(***************************************************************************)
IsImage(block) == "image" \in DOMAIN block

\* the positions of the image blocks of the message, in order
ImagePositions == { p \in 1..Len(content) : IsImage(content[p]) }

\* every keyframe of every clip, in clip order and then keyframe order
RECURSIVE AllKeyframes(_)
AllKeyframes(clips) ==
    IF clips = <<>> THEN <<>>
    ELSE AllKeyframes(SubSeq(clips, 1, Len(clips) - 1)) \o clips[Len(clips)].keyframes

\* where the frame of an image block stands among all keyframes
KeyframeRank(block) ==
    LET all == AllKeyframes(prompt_clips)
    IN  CHOOSE r \in 1..Len(all) : ImageBlock(all[r]) = block

\* the image blocks sent for the clip at position k
ImagesOfClip(k) ==
    { p \in ImagePositions :
        \E i \in 1..Len(prompt_clips[k].keyframes) :
            content[p] = ImageBlock(prompt_clips[k].keyframes[i]) }

\* the message is an interleaving of timestamp texts and images, in clip
\* and keyframe order, within the budgets
WellInterleaved ==
    /\ \A p \in ImagePositions :
          /\ p > 1 /\ ~IsImage(content[p - 1])
          /\ LET j == Cardinality({ q \in ImagePositions : q <= p })
             IN  content[p - 1] = TextBlock(FrameText(frame_timestamps[j]))
    /\ \A p, q \in ImagePositions :
          p < q => KeyframeRank(content[p]) < KeyframeRank(content[q])
    /\ Cardinality(ImagePositions) <= max_frames
    /\ \A k \in 1..Len(prompt_clips) :
          Cardinality(ImagesOfClip(k)) <= max_frames \div Len(prompt_clips)

\* C22: for every list of clips and every max_frames the message is built
\* without error, also when no frame is included, and in it every image
\* block directly follows the text block with its frame's timestamp, the
\* frames are in clip order and then keyframe order, there are at most
\* max_frames images and at most floor(max_frames / clips) of one clip.
C22_PromptBuilt ==
    /\ lpc # "raised"
    /\ lpc = "returned" => WellInterleaved

=============================================================================
